---- MODULE Spec2Model ----
(***************************************************************************)
(* Model of rotkehlchen/chain/ethereum/modules/balancer/balancer.py: the   *)
(* Balancer module's event synchronization.  get_events_history takes the  *)
(* module lock, splits the addresses by their used query range, fetches    *)
(* the invest events (ADD_LIQUIDITY / REMOVE_LIQUIDITY) and the BPT events *)
(* (MINT / BURN) from the subgraph page by page, updates the used query    *)
(* ranges, aggregates the events into BalancerEvents and stores them.      *)
(*                                                                         *)
(* Eleven specifications share the variables:                              *)
(*   Spec       the module as a whole: callers, lock, ledger, database;    *)
(*   SpecFetch  one call of _get_address_to_invest_events_graph, request   *)
(*              by request;                                                *)
(*   SpecAgg    one call of _get_balancer_aggregated_events_data on        *)
(*              enumerated inputs;                                         *)
(*   SpecPnl    one call of _calculate_pool_events_balances;               *)
(*   SpecShares one call of _get_protocol_balance_graph, request by        *)
(*              request;                                                   *)
(*   SpecPrice  one price resolution, stage by stage;                      *)
(*   SpecPages  the three fetches over pages that may hold a malformed     *)
(*              item;                                                      *)
(*   SpecBalances one call of                                              *)
(*              _update_tokens_prices_in_address_to_pool_balances;         *)
(*   SpecCursor the invest-event fetch over events that share a timestamp, *)
(*              every request answered (weakly fair);                      *)
(*   SpecLive   the callers with fairness: bodies end, the lock is         *)
(*              released, a waiter gets a lock that is free time and again;*)
(*   SpecRepeat one caller that calls get_events_history time after time.  *)
(***************************************************************************)
EXTENDS Integers, Sequences, FiniteSets, TLC

VARIABLES
    trades_lock,   \* counter of the gevent Semaphore self.trades_lock
    ledger,        \* used_query_ranges rows 'balancer_events_<address>'
    db_events,     \* rows of the balancer_events table
    pc,            \* position of each caller of get_events_history
    loc,           \* locals of each caller's get_events_history call
    indexer,       \* what the subgraphs and price sources hold
    fx,            \* locals of one _get_address_to_invest_events_graph call
    agg,           \* input and result of one aggregation call
    pnl,           \* input and result of one _calculate_pool_events_balances call
    px,            \* locals of one price resolution call
    pg,            \* locals of one _get_protocol_balance_graph call
    bal,           \* input and result of one
                   \* _update_tokens_prices_in_address_to_pool_balances call
    last           \* history: the arguments and the outcome of the call of
                   \* get_events_history that ended last

vars == <<trades_lock, ledger, db_events, pc, loc, indexer, fx, agg, pnl, px, pg,
          bal, last>>

----------------------------------------------------------------------------
(* Bounds of the model *)

\* page size of the subgraph queries (GRAPH_QUERY_LIMIT, scaled down)
GRAPH_QUERY_LIMIT == 2

\* number of full pages after which the offset reaches the skip limit
SkipPages == 1

\* largest timestamp a caller asks for
MaxTs == 3

GRAPH_QUERY_SKIP_LIMIT == SkipPages * GRAPH_QUERY_LIMIT

Procs == {1, 2}

Addresses == {"A", "B"}

Tokens == {"X", "Y", "Z"}

Timestamps == 0..MaxTs

\* the event timestamps of the data sets below
EventTimestamps == 1..3

ADD_LIQUIDITY == "ADD_LIQUIDITY"

REMOVE_LIQUIDITY == "REMOVE_LIQUIDITY"

MINT == "MINT"

BURN == "BURN"

\* EvmToken.underlying_tokens of a pool token
underlying_tokens(pool) ==
    CASE pool = "P1" -> <<"X", "Y">>
      [] pool = "P2" -> <<"Y">>
      [] pool = "P3" -> <<"Z">>
      [] OTHER -> <<>>

----------------------------------------------------------------------------
(* Helpers *)

Min(a, b) == IF a <= b THEN a ELSE b

Max(a, b) == IF a >= b THEN a ELSE b

Range(s) == {s[i] : i \in DOMAIN s}

\* lexicographic order on tuples of integers of one length
LexLess(k1, k2) ==
    \E i \in DOMAIN k1 :
        /\ k1[i] < k2[i]
        /\ \A j \in DOMAIN k1 : j < i => k1[j] = k2[j]

KeyTxLog(e) == <<e.tx_hash, e.log_index>>

KeyTimestamp(e) == <<e.timestamp, e.tx_hash, e.log_index>>

RECURSIVE SortedByTxLog(_)
\* sorted(events, key=lambda event: (event.tx_hash, event.log_index))
SortedByTxLog(S) ==
    IF S = {} THEN <<>>
    ELSE LET m == CHOOSE x \in S : \A y \in S : ~LexLess(KeyTxLog(y), KeyTxLog(x))
         IN  <<m>> \o SortedByTxLog(S \ {m})

RECURSIVE SortedByTimestamp(_)
SortedByTimestamp(S) ==
    IF S = {} THEN <<>>
    ELSE LET m == CHOOSE x \in S :
                      \A y \in S : ~LexLess(KeyTimestamp(y), KeyTimestamp(x))
         IN  <<m>> \o SortedByTimestamp(S \ {m})

\* one page of an ordered result: skip `offset`, first GRAPH_QUERY_LIMIT
Page(all, offset) ==
    SubSeq(all, offset + 1, Min(offset + GRAPH_QUERY_LIMIT, Len(all)))

AddressToSortedDescending(S) ==
    [a \in {e.address : e \in S} |->
        LET sorted == SortedByTxLog({e \in S : e.address = a})
        IN  [i \in 1..Len(sorted) |-> sorted[Len(sorted) + 1 - i]]]

\* mapping address -> sorted list, with the addresses that have events as keys
AddressToSorted(S) ==
    [a \in {e.address : e \in S} |-> SortedByTxLog({e \in S : e.address = a})]

----------------------------------------------------------------------------
(* Subgraph data *)

\* the items of the subgraphs' pages; malformed: the item's deserialization
\* raises DeserializationError
InvestEvent(a, tx, log, pool, token, amount, ts, type) ==
    [address |-> a, tx_hash |-> tx, log_index |-> log, pool |-> pool,
     token |-> token, amount |-> amount, timestamp |-> ts, event_type |-> type,
     malformed |-> FALSE]

BPTEvent(a, tx, log, pool, amount, type) ==
    [address |-> a, tx_hash |-> tx, log_index |-> log, pool |-> pool,
     amount |-> amount, event_type |-> type, malformed |-> FALSE]

Malformed(item) == [item EXCEPT !.malformed = TRUE]

\* the items S with those of m malformed
WithMalformed(S, m) == {IF x \in m THEN Malformed(x) ELSE x : x \in S}

NoneMalformed(raw_items) == FALSE

\* whether the deserialization of an item of the page raises
HasMalformed(raw_items) == \E i \in DOMAIN raw_items : raw_items[i].malformed

\* the price sources: tokens with an oracle, the oracle's and the Uniswap
\* subgraph's price per (token, timestamp) with 0 for no price, the Balancer
\* subgraph's price per token with 0 for no price, whether the oracle, the Balancer
\* subgraph and the Uniswap subgraph raise RemoteError, whether
\* self.graph_uniswap is a Graph (FALSE: it is None), and the tokens whose
\* price item of the Balancer or of the Uniswap subgraph is malformed
PriceEnv(zero, uniswap_error) ==
    [has_oracle |-> {"X"},
     price |-> [t \in Tokens, ts \in EventTimestamps |->
                   IF <<t, ts>> \in zero THEN 0
                   ELSE CASE t = "X" -> 1 [] t = "Y" -> 2 [] OTHER -> 3],
     balancer_price |-> [t \in Tokens |-> 0],
     oracle_error |-> FALSE,
     balancer_error |-> FALSE,
     uniswap_error |-> uniswap_error,
     graph_uniswap |-> TRUE,
     malformed_token_prices |-> {},
     malformed_token_day_datas |-> {}]

\* Address A: a two-token join (tx 1), a join (tx 2), an exit (tx 3).
\* Address B: a join (tx 4), a join whose MINT the subgraph lacks (tx 5), and
\* an exit whose BURN is of another pool than its REMOVE_LIQUIDITY (tx 6).
MainData ==
    [invest |-> {
        InvestEvent("A", 1, 1, "P1", "X", 2, 1, ADD_LIQUIDITY),
        InvestEvent("A", 1, 2, "P1", "Y", 1, 1, ADD_LIQUIDITY),
        InvestEvent("A", 2, 1, "P1", "X", 1, 2, ADD_LIQUIDITY),
        InvestEvent("A", 3, 1, "P1", "X", 1, 3, REMOVE_LIQUIDITY),
        InvestEvent("B", 4, 1, "P1", "Y", 1, 1, ADD_LIQUIDITY),
        InvestEvent("B", 5, 1, "P1", "X", 1, 2, ADD_LIQUIDITY),
        InvestEvent("B", 6, 1, "P2", "Y", 1, 3, REMOVE_LIQUIDITY)},
     bpt |-> {
        BPTEvent("A", 1, 3, "P1", 5, MINT),
        BPTEvent("A", 2, 2, "P1", 2, MINT),
        BPTEvent("A", 3, 2, "P1", 1, BURN),
        BPTEvent("B", 4, 2, "P1", 1, MINT),
        BPTEvent("B", 6, 2, "P1", 1, BURN)},
     prices |-> PriceEnv({<<"Y", 1>>}, FALSE)]

\* every invest event has its BPT event: one address with joins in three
\* transactions and an exit, another with one join
ConsistentData ==
    [invest |-> {
        InvestEvent("A", 1, 1, "P1", "X", 2, 1, ADD_LIQUIDITY),
        InvestEvent("A", 2, 1, "P1", "Y", 1, 2, ADD_LIQUIDITY),
        InvestEvent("A", 3, 1, "P1", "X", 1, 2, ADD_LIQUIDITY),
        InvestEvent("A", 4, 1, "P1", "X", 1, 3, REMOVE_LIQUIDITY),
        InvestEvent("B", 5, 1, "P2", "Y", 1, 1, ADD_LIQUIDITY)},
     bpt |-> {
        BPTEvent("A", 1, 2, "P1", 2, MINT),
        BPTEvent("A", 2, 2, "P1", 1, MINT),
        BPTEvent("A", 3, 2, "P1", 1, MINT),
        BPTEvent("A", 4, 2, "P1", 1, BURN),
        BPTEvent("B", 5, 2, "P2", 1, MINT)},
     prices |-> PriceEnv({}, FALSE)]

NoData == [invest |-> {}, bpt |-> {}, prices |-> PriceEnv({}, FALSE)]

\* result of the addLiquidities / removeLiquidities query: the events of the
\* addresses with start_ts <= timestamp <= end_ts, ordered by timestamp
InvestQuery(idx, event_type, addresses, start_ts, end_ts, offset) ==
    Page(SortedByTimestamp({e \in idx.invest :
            /\ e.event_type = event_type
            /\ e.address \in addresses
            /\ start_ts <= e.timestamp
            /\ e.timestamp <= end_ts}), offset)

\* result of the mints / burns query: the events of the addresses in the
\* given transactions with an id above query_id, ordered by id
BPTQuery(idx, event_type, addresses, transactions, query_id, offset) ==
    Page(SortedByTxLog({e \in idx.bpt :
            /\ e.event_type = event_type
            /\ e.address \in addresses
            /\ e.tx_hash \in transactions
            /\ LexLess(query_id, KeyTxLog(e))}), offset)

----------------------------------------------------------------------------
(* _get_address_to_invest_events_graph and _get_address_to_bpt_events_graph *)

BPTTypeOf(event_type) == IF event_type = ADD_LIQUIDITY THEN MINT ELSE BURN

BPTRequest(event_type, transactions, query_id, offset) ==
    [query |-> "bpt", event_type |-> event_type, offset |-> offset,
     start_ts |-> 0, end_ts |-> 0, id |-> query_id,
     transactions |-> transactions]

InvestRequest(event_type, start_ts, end_ts, offset) ==
    [query |-> "invest", event_type |-> event_type, offset |-> offset,
     start_ts |-> start_ts, end_ts |-> end_ts, id |-> <<0, 0>>,
     transactions |-> {}]

\* the locals at the start of _get_address_to_invest_events_graph
FetchStart(addresses, event_type, start_ts, end_ts) ==
    [addresses |-> addresses, event_type |-> event_type, end_ts |-> end_ts,
     query_start_ts |-> start_ts, query_offset |-> 0,
     unique_invest |-> {}, raw_events |-> <<>>,
     mint_events |-> {},
     transactions |-> {}, bpt_query_id |-> <<0, 0>>, bpt_query_offset |-> 0,
     unique_bpt |-> {},
     requests |-> <<>>,
     phase |-> "invest"]

InvestPageWithoutBPTFetch(st, idx) ==
    LET raw_events == InvestQuery(idx, st.event_type, st.addresses,
                                  st.query_start_ts, st.end_ts, st.query_offset)
        done == Len(raw_events) < GRAPH_QUERY_LIMIT
    IN  [st EXCEPT
            !.raw_events = raw_events,
            !.unique_invest = @ \cup Range(raw_events),
            !.requests = Append(@, InvestRequest(st.event_type,
                             st.query_start_ts, st.end_ts, st.query_offset)),
            !.query_offset = IF done THEN @ ELSE @ + GRAPH_QUERY_LIMIT,
            !.phase = IF done THEN "done" ELSE "invest"]

\* one addLiquidities / removeLiquidities request and the gathering of the
\* transaction hashes of its page; the nested BPT fetch starts
InvestPage(st, idx) ==
    LET raw_events == InvestQuery(idx, st.event_type, st.addresses,
                                  st.query_start_ts, st.end_ts, st.query_offset)
    IN  [st EXCEPT
            !.raw_events = raw_events,
            !.transactions = {e.tx_hash : e \in Range(raw_events)},
            !.bpt_query_id = <<0, 0>>,
            !.bpt_query_offset = 0,
            !.unique_bpt = {},
            !.requests = Append(@, InvestRequest(st.event_type,
                             st.query_start_ts, st.end_ts, st.query_offset)),
            !.phase = "bpt"]

\* address_to_mint_events after the nested call of this pass of the loop
AddressToMintEvents(st, unique_bpt) == unique_bpt

InvestPageEndStopsAtEmptyPage(st, unique_bpt) ==
    LET raw_events == st.raw_events
        done == Len(raw_events) = 0
        at_skip_limit == st.query_offset = GRAPH_QUERY_SKIP_LIMIT
    IN  [st EXCEPT
            !.mint_events = unique_bpt,
            !.unique_invest = @ \cup Range(raw_events),
            !.query_start_ts =
                IF ~done /\ at_skip_limit
                THEN raw_events[Len(raw_events)].timestamp ELSE @,
            !.query_offset =
                IF done THEN @
                ELSE IF at_skip_limit THEN 0 ELSE @ + GRAPH_QUERY_LIMIT,
            !.phase = IF done THEN "done" ELSE "invest"]

\* the end of one pass of the invest loop, once the nested BPT fetch has
\* returned unique_bpt: the page's events are deserialized (RemoteError at a
\* malformed one) and join the set, then the loop ends or the offset (or, at
\* the skip limit, the start timestamp) advances
InvestPageEnd(st, unique_bpt) ==
    LET raw_events == st.raw_events
        done == Len(raw_events) < GRAPH_QUERY_LIMIT
        at_skip_limit == st.query_offset = GRAPH_QUERY_SKIP_LIMIT
    IN  IF HasMalformed(raw_events)
        THEN [st EXCEPT !.mint_events = AddressToMintEvents(st, unique_bpt),
                        !.phase = "raised"]
        ELSE
        [st EXCEPT
            !.mint_events = AddressToMintEvents(st, unique_bpt),
            !.unique_invest = @ \cup Range(raw_events),
            !.query_start_ts =
                IF ~done /\ at_skip_limit
                THEN raw_events[Len(raw_events)].timestamp ELSE @,
            !.query_offset =
                IF done THEN @
                ELSE IF at_skip_limit THEN 0 ELSE @ + GRAPH_QUERY_LIMIT,
            !.phase = IF done THEN "done" ELSE "invest"]

\* one mints / burns request of the nested fetch
BPTPage(st, idx) ==
    LET bpt_type == BPTTypeOf(st.event_type)
        raw_events == BPTQuery(idx, bpt_type, st.addresses, st.transactions,
                               st.bpt_query_id, st.bpt_query_offset)
        unique_bpt == st.unique_bpt \cup Range(raw_events)
        done == Len(raw_events) < GRAPH_QUERY_LIMIT
        at_skip_limit == st.bpt_query_offset = GRAPH_QUERY_SKIP_LIMIT
        logged == [st EXCEPT
            !.requests = Append(@, BPTRequest(bpt_type, st.transactions,
                             st.bpt_query_id, st.bpt_query_offset))]
    IN  IF HasMalformed(raw_events)
        THEN [logged EXCEPT !.phase = "raised"]
        ELSE IF done
        THEN InvestPageEnd(logged, unique_bpt)
        ELSE [logged EXCEPT
                !.unique_bpt = unique_bpt,
                !.bpt_query_id =
                    IF at_skip_limit
                    THEN KeyTxLog(raw_events[Len(raw_events)]) ELSE @,
                !.bpt_query_offset =
                    IF at_skip_limit THEN 0 ELSE @ + GRAPH_QUERY_LIMIT]

FetchStep(st, idx) ==
    IF st.phase = "invest" THEN InvestPage(st, idx) ELSE BPTPage(st, idx)

RECURSIVE FetchRun(_, _)
\* the loops run to their end, or to the RemoteError of a malformed event
FetchRun(st, idx) ==
    IF st.phase \in {"done", "raised"} THEN st
    ELSE FetchRun(FetchStep(st, idx), idx)

RECURSIVE PagesInARow(_, _, _)
\* the events of an address on the invest pages of the logged requests, page
\* after page
PagesInARow(st, i, address) ==
    IF i > Len(st.requests) THEN <<>>
    ELSE LET r == st.requests[i]
             page == IF r.query = "invest"
                     THEN InvestQuery(indexer, r.event_type, st.addresses,
                                      r.start_ts, r.end_ts, r.offset)
                     ELSE <<>>
         IN  SelectSeq(page, LAMBDA e : e.address = address)
                 \o PagesInARow(st, i + 1, address)

FetchResultOfLists(st) ==
    [invest |-> [a \in {e.address : e \in st.unique_invest} |->
                    PagesInARow(st, 1, a)],
     bpt |-> AddressToSorted(st.mint_events)]

\* return address_to_invest_events, address_to_mint_events
FetchResult(st) ==
    [invest |-> AddressToSorted(st.unique_invest),
     bpt |-> AddressToSorted(st.mint_events)]

----------------------------------------------------------------------------
(* SpecFetch: one call of _get_address_to_invest_events_graph *)

FetchDataSets == {MainData, ConsistentData}

IdleFetch == [FetchStart({}, ADD_LIQUIDITY, 0, 0) EXCEPT !.phase = "none"]

FetchInvestPage ==
    /\ fx.phase = "invest"
    /\ fx' = InvestPage(fx, indexer)
    /\ UNCHANGED <<trades_lock, ledger, db_events, pc, loc, indexer, agg, pnl, px, pg, bal, last>>

FetchBPTPage ==
    /\ fx.phase = "bpt"
    /\ fx' = BPTPage(fx, indexer)
    /\ UNCHANGED <<trades_lock, ledger, db_events, pc, loc, indexer, agg, pnl, px, pg, bal, last>>

\* graph_events.query raises RemoteError, or the page lacks its key
FetchRemoteError ==
    /\ fx.phase \in {"invest", "bpt"}
    /\ fx' = [fx EXCEPT !.phase = "raised"]
    /\ UNCHANGED <<trades_lock, ledger, db_events, pc, loc, indexer, agg, pnl, px, pg, bal, last>>

NextFetch == FetchInvestPage \/ FetchBPTPage \/ FetchRemoteError

----------------------------------------------------------------------------
(* Price resolution *)

\* a defaultdict's item, or dict.get: the default when the key is new
GetOrDefault(m, k, default) == IF k \in DOMAIN m THEN m[k] ELSE default

\* the time of a request of current prices (ts_now), as an event timestamp
Now == CHOOSE ts \in EventTimestamps : \A other \in EventTimestamps : other <= ts

\* query_usd_price_or_use_default(asset, time, default_value=ZERO): the
\* oracle's price, ZERO when it has none, or the error it raises
OraclePrice(env, token, timestamp) ==
    IF env.oracle_error
    THEN [error |-> "RemoteError", usd_price |-> 0]
    ELSE [error |-> "", usd_price |-> env.price[token, timestamp]]

\* the items of a price request that get into token_to_prices: a malformed
\* one is logged and passed over (`continue`)
SkipMalformed(priced, malformed) == priced \ malformed

\* _get_unknown_token_to_prices_balancer_graph: the tokenPrices query
BalancerGraphPrices(env, tokens) ==
    IF env.balancer_error
    THEN [error |-> "RemoteError", token_to_prices |-> <<>>]
    ELSE [error |-> "",
          token_to_prices |->
              [t \in SkipMalformed({u \in tokens : env.balancer_price[u] # 0},
                                   env.malformed_token_prices) |->
                  env.balancer_price[t]]]

\* _get_unknown_token_to_prices_uniswap_graph: self.graph_uniswap.query, an
\* AttributeError when self.graph_uniswap is None; the tokens without token
\* day data are not in the result
UniswapGraphPrices(env, tokens, timestamp) ==
    IF ~env.graph_uniswap
    THEN [error |-> "AttributeError", token_to_prices |-> <<>>]
    ELSE IF env.uniswap_error
    THEN [error |-> "RemoteError", token_to_prices |-> <<>>]
    ELSE [error |-> "",
          token_to_prices |->
              [t \in SkipMalformed({u \in tokens : env.price[u, timestamp] # 0},
                                   env.malformed_token_day_datas) |->
                  env.price[t, timestamp]]]

\* the non-oracle branch of _get_token_price_at_timestamp_zero_if_error:
\* `with suppress(RemoteError)` around the Uniswap request, then
\* token_to_prices.get(token.evm_address, ZERO_PRICE)
SuppressedUniswapPrice(env, token, timestamp) ==
    LET got == UniswapGraphPrices(env, {token}, timestamp)
    IN  IF got.error = "RemoteError"
        THEN [error |-> "", usd_price |-> 0]
        ELSE IF got.error # ""
        THEN [error |-> got.error, usd_price |-> 0]
        ELSE [error |-> "",
              usd_price |-> GetOrDefault(got.token_to_prices, token, 0)]

\* _get_token_price_at_timestamp_zero_if_error: the price returned, or the
\* error raised
TokenPriceAtTimestampZeroIfError(env, token, timestamp) ==
    IF token \in env.has_oracle
    THEN OraclePrice(env, token, timestamp)
    ELSE SuppressedUniswapPrice(env, token, timestamp)

\* {**m1, **m2}
Merged(m1, m2) ==
    [k \in DOMAIN m1 \cup DOMAIN m2 |->
        IF k \in DOMAIN m2 THEN m2[k] ELSE m1[k]]

\* One price resolution, stage by stage.  kind "historical" is the price of
\* one token of an invest event as _get_balancer_aggregated_events_data asks
\* for it; kind "current" is _get_unknown_token_to_prices_graph.  stages is
\* the log of the stages asked and of what each gave.
PriceStart(kind, env, tokens, timestamp) ==
    [kind |-> kind,
     env |-> env,
     tokens |-> tokens,
     timestamp |-> timestamp,
     phase |-> IF kind = "current" THEN "balancer"
               ELSE IF tokens \subseteq env.has_oracle THEN "oracle"
               ELSE "uniswap",
     token_to_prices |-> <<>>,
     usd_price |-> 0,
     stages |-> <<>>,
     error |-> "",
     warnings |-> {}]

PriceToken(st) == CHOOSE t \in st.tokens : TRUE

StageOutcome(error) == IF error = "" THEN "prices" ELSE error

PriceRaise(st, stage, error) ==
    [st EXCEPT !.phase = "raised",
               !.error = error,
               !.stages = Append(@, [stage |-> stage, outcome |-> error])]

\* the oracle branch of _get_token_price_at_timestamp_zero_if_error
PriceOracleStage(st) ==
    LET got == OraclePrice(st.env, PriceToken(st), st.timestamp)
    IN  IF got.error # "" THEN PriceRaise(st, "oracle", got.error)
        ELSE [st EXCEPT
                !.phase = "warn",
                !.usd_price = got.usd_price,
                !.stages = Append(@, [stage |-> "oracle",
                                      outcome |-> "prices"])]

\* the Balancer request of _get_unknown_token_to_prices_graph
PriceBalancerStage(st) ==
    LET got == BalancerGraphPrices(st.env, st.tokens)
    IN  IF got.error # "" THEN PriceRaise(st, "balancer", got.error)
        ELSE [st EXCEPT
                !.phase = IF st.env.graph_uniswap THEN "uniswap" ELSE "warn",
                !.token_to_prices = got.token_to_prices,
                !.stages = Append(@, [stage |-> "balancer",
                                      outcome |-> "prices"])]

PriceUniswapStageUncaught(st) ==
    LET still_unknown == st.tokens \ DOMAIN st.token_to_prices
        time == IF st.kind = "current" THEN Now ELSE st.timestamp
        got == UniswapGraphPrices(st.env, still_unknown, time)
    IN  IF got.error # "" THEN PriceRaise(st, "uniswap", got.error)
        ELSE [st EXCEPT
                !.phase = "warn",
                !.token_to_prices = Merged(@, got.token_to_prices),
                !.usd_price =
                    IF st.kind = "current" THEN @
                    ELSE GetOrDefault(got.token_to_prices, PriceToken(st), 0),
                !.stages = Append(@, [stage |-> "uniswap",
                                      outcome |-> "prices"])]

\* the Uniswap request: of _get_unknown_token_to_prices_graph in its
\* try / except RemoteError, of _get_token_price_at_timestamp_zero_if_error
\* in its `with suppress(RemoteError)`
PriceUniswapStage(st) ==
    LET still_unknown == st.tokens \ DOMAIN st.token_to_prices
        time == IF st.kind = "current" THEN Now ELSE st.timestamp
        got == UniswapGraphPrices(st.env, still_unknown, time)
        token_to_prices_uni ==
            IF got.error = "RemoteError" THEN <<>> ELSE got.token_to_prices
    IN  IF got.error \notin {"", "RemoteError"}
        THEN PriceRaise(st, "uniswap", got.error)
        ELSE [st EXCEPT
                !.phase = "warn",
                !.token_to_prices = Merged(@, token_to_prices_uni),
                !.usd_price =
                    IF st.kind = "current" THEN @
                    ELSE SuppressedUniswapPrice(
                             st.env, PriceToken(st), st.timestamp).usd_price,
                !.stages = Append(@, [stage |-> "uniswap",
                                      outcome |-> StageOutcome(got.error)])]

\* msg_aggregator.add_error: for each unknown token without a price, or by
\* the caller for the invest event's token when its usd_price is ZERO
PriceWarnings(st) ==
    [st EXCEPT
        !.phase = "done",
        !.warnings =
            IF st.kind = "current"
            THEN {t \in st.tokens : t \notin DOMAIN st.token_to_prices}
            ELSE IF st.usd_price = 0 THEN st.tokens ELSE {}]

----------------------------------------------------------------------------
(* _get_address_to_events_data: the BalancerEventsData per address *)

Get(m, a) == IF a \in DOMAIN m THEN m[a] ELSE <<>>

\* add and rem are the results of the ADD_LIQUIDITY and REMOVE_LIQUIDITY
\* fetches; the keys are the addresses with invest events
EventsData(add, rem) ==
    [a \in (DOMAIN add.invest) \cup (DOMAIN rem.invest) |->
        [add_liquidities |-> Get(add.invest, a),
         remove_liquidities |-> Get(rem.invest, a),
         mints |-> Get(add.bpt, a),
         burns |-> Get(rem.bpt, a)]]

----------------------------------------------------------------------------
(* _get_balancer_aggregated_events_data *)

\* tokenaddr_to_index[token_address]: 0 stands for the KeyError of a token
\* that is not a key of the map
TokenIndex(pool, token) ==
    LET tokens == underlying_tokens(pool)
    IN  IF \E i \in DOMAIN tokens : tokens[i] = token
        THEN CHOOSE i \in DOMAIN tokens : tokens[i] = token
        ELSE 0

\* tx_hash_and_pool_addr_to_invest_events[key]
InvestEventsOf(invest_events, tx_hash, pool) ==
    SelectSeq(invest_events, LAMBDA e : e.tx_hash = tx_hash /\ e.pool = pool)

LpUsdValueKeepsPartialSum(usd_value, is_missing_token_price) == usd_value

ZeroAmountsOneToken(pool) == <<0>>

\* amounts = [AssetAmount(ZERO)] * len(pool_address_token.underlying_tokens)
ZeroAmounts(pool) == [i \in 1..Len(underlying_tokens(pool)) |-> 0]

\* the USD value of the LP balance once the invest events are added up
LpUsdValue(usd_value, is_missing_token_price) ==
    IF is_missing_token_price THEN 0 ELSE usd_value

UsdValueOfPriceAlone(usd_price, amount) == usd_price

\* usd_price * invest_event.amount
UsdValueOf(usd_price, amount) == usd_price * amount

RECURSIVE AddInvestEvents(_, _, _, _, _)
\* the loop over the invest events of one BPT event, from the i-th on
AddInvestEvents(group, i, pool, env, acc) ==
    IF i > Len(group) \/ acc.error # "" THEN acc
    ELSE LET invest_event == group[i]
             token_idx == TokenIndex(pool, invest_event.token)
             price == TokenPriceAtTimestampZeroIfError(
                          env, invest_event.token, invest_event.timestamp)
         IN  IF token_idx = 0
             THEN [acc EXCEPT !.error = "KeyError"]
             ELSE IF ~acc.is_missing_token_price /\ price.error # ""
             THEN [acc EXCEPT !.error = price.error]
             ELSE AddInvestEvents(group, i + 1, pool, env,
                    [acc EXCEPT
                        !.amounts[token_idx] = @ + invest_event.amount,
                        !.usd_value =
                            IF acc.is_missing_token_price THEN @
                            ELSE @ + UsdValueOf(price.usd_price,
                                                invest_event.amount),
                        !.is_missing_token_price = @ \/ price.usd_price = 0])

\* the BalancerEvent of one BPT event, or the error raised on the way
AggregateBPTEvent(bpt_event, all_invest_events, event_type, env) ==
    LET pool == bpt_event.pool
        invest_events == InvestEventsOf(all_invest_events, bpt_event.tx_hash, pool)
        start == [amounts |-> ZeroAmounts(pool),
                  usd_value |-> 0,
                  is_missing_token_price |-> FALSE,
                  error |-> ""]
        acc == AddInvestEvents(invest_events, 1, pool, env, start)
    IN  IF Len(invest_events) = 0
        THEN [error |-> "RemoteError"]
        ELSE IF acc.error # ""
        THEN [error |-> acc.error]
        ELSE [error |-> "",
              event |-> [tx_hash |-> bpt_event.tx_hash,
                         log_index |-> bpt_event.log_index,
                         address |-> bpt_event.address,
                         timestamp |-> invest_events[1].timestamp,
                         event_type |-> event_type,
                         pool |-> pool,
                         lp_amount |-> bpt_event.amount,
                         usd_value |-> LpUsdValue(acc.usd_value,
                                          acc.is_missing_token_price),
                         amounts |-> acc.amounts]]

RECURSIVE AggregateBPTEvents(_, _, _, _, _, _)
\* the loop over the BPT events of one address, from the i-th on
AggregateBPTEvents(bpt_events, i, invest_events, event_type, env, acc) ==
    IF i > Len(bpt_events) \/ acc.error # "" THEN acc
    ELSE LET one == AggregateBPTEvent(bpt_events[i], invest_events, event_type, env)
         IN  IF one.error # ""
             THEN [acc EXCEPT !.error = one.error]
             ELSE AggregateBPTEvents(bpt_events, i + 1, invest_events,
                      event_type, env,
                      [acc EXCEPT !.balancer_events = Append(@, one.event)])

\* the order in which address_to_events_data.values() yields the addresses
AddressOrder(address_to_events_data) ==
    SelectSeq(<<"A", "B">>, LAMBDA a : a \in DOMAIN address_to_events_data)

RECURSIVE AggregatedEventsDataByEventType(_, _, _, _, _)
\* _get_balancer_aggregated_events_data_by_event_type, from the i-th address
AggregatedEventsDataByEventType(address_to_events_data, i, event_type, env, acc) ==
    LET order == AddressOrder(address_to_events_data)
    IN  IF i > Len(order) \/ acc.error # "" THEN acc
        ELSE LET events == address_to_events_data[order[i]]
                 invest_events == IF event_type = MINT
                                  THEN events.add_liquidities
                                  ELSE events.remove_liquidities
                 bpt_events == IF event_type = MINT
                               THEN events.mints ELSE events.burns
             IN  AggregatedEventsDataByEventType(address_to_events_data, i + 1,
                     event_type, env,
                     AggregateBPTEvents(bpt_events, 1, invest_events,
                                        event_type, env, acc))

\* for event_type in BalancerBPTEventType; an error raised on the way is the
\* call's outcome and no list is returned
AggregatedEventsData(address_to_events_data, env) ==
    LET start == [error |-> "", balancer_events |-> <<>>]
        mints == AggregatedEventsDataByEventType(
                     address_to_events_data, 1, MINT, env, start)
        burns == AggregatedEventsDataByEventType(
                     address_to_events_data, 1, BURN, env, mints)
    IN  IF burns.error # ""
        THEN [error |-> burns.error, balancer_events |-> <<>>]
        ELSE burns

----------------------------------------------------------------------------
(* The database: used query ranges and balancer events *)

NoRange == <<>>

EmptyLedger == [a \in Addresses |-> NoRange]

\* DBHandler.get_used_query_range(name='balancer_events_<address>')
get_used_query_range(ld, address) == ld[address]

\* DBHandler.update_used_query_range(name, start_ts, end_ts): the row of the
\* name holds the range it is given
update_used_query_range(ld, address, start_ts, end_ts) ==
    [ld EXCEPT ![address] = <<start_ts, end_ts>>]

RECURSIVE UpdateUsedQueryRange(_, _, _, _)
UpdateUsedQueryRangeEndBefore(ld, addresses, from_timestamp, to_timestamp) ==
    [a \in Addresses |-> IF a \in addresses
                         THEN <<from_timestamp, to_timestamp - 1>> ELSE ld[a]]

\* _update_used_query_range: every address of the batch gets the range
UpdateUsedQueryRange(ld, addresses, from_timestamp, to_timestamp) ==
    IF addresses = {} THEN ld
    ELSE LET address == CHOOSE a \in addresses : TRUE
         IN  UpdateUsedQueryRange(
                 update_used_query_range(ld, address, from_timestamp, to_timestamp),
                 addresses \ {address}, from_timestamp, to_timestamp)

\* add_balancer_events: the rows are added; a row already there stays
add_balancer_events(events, balancer_events) ==
    events \cup Range(balancer_events)

KeyTimestampLog(e) == <<e.timestamp, e.log_index>>

RECURSIVE LatestFirst(_)
\* the rows in the reverse order
LatestFirst(S) ==
    IF S = {} THEN <<>>
    ELSE LET m == CHOOSE x \in S :
                      \A y \in S : ~LexLess(KeyTimestampLog(x), KeyTimestampLog(y))
         IN  <<m>> \o LatestFirst(S \ {m})

RECURSIVE SortedByTimestampLog(_)
\* db_events.sort(key=lambda event: (event.timestamp, event.log_index))
SortedByTimestampLog(S) ==
    IF S = {} THEN <<>>
    ELSE LET m == CHOOSE x \in S :
                      \A y \in S : ~LexLess(KeyTimestampLog(y), KeyTimestampLog(x))
         IN  <<m>> \o SortedByTimestampLog(S \ {m})

\* get_balancer_events(from_timestamp, to_timestamp, address)
get_balancer_events(events, from_timestamp, to_timestamp, address) ==
    {e \in events : /\ e.address = address
                    /\ from_timestamp <= e.timestamp
                    /\ e.timestamp <= to_timestamp}

\* db_address_to_events: the sorted events of the addresses that have some
DbAddressToEvents(events, addresses, from_timestamp, to_timestamp) ==
    [a \in {b \in addresses :
              get_balancer_events(events, from_timestamp, to_timestamp, b) # {}}
        |-> SortedByTimestampLog(
                get_balancer_events(events, from_timestamp, to_timestamp, a))]

----------------------------------------------------------------------------
(* _calculate_pool_events_balances *)

\* the largest number of tokens of a Balancer pool
POOL_MAX_NUMBER_TOKENS == 8

\* BalancerPoolBalance: the pool and the user's balance of each underlying
\* token, in the order of the pool's tokens
PoolBalance(pool, underlying_tokens_balance) ==
    [pool |-> pool, underlying_tokens_balance |-> underlying_tokens_balance]

\* BalancerPoolTokenBalance: the user's balance of one underlying token
UnderlyingTokenBalance(token, amount, usd_value) ==
    [token |-> token, amount |-> amount, usd_value |-> usd_value]

Put(m, k, v) == [x \in (DOMAIN m) \cup {k} |-> IF x = k THEN v ELSE m[x]]

OperatorAddIfMint(event_type, a, b) ==
    IF event_type = MINT THEN a + b ELSE a - b

\* operator = sub if event.event_type == BalancerBPTEventType.MINT else add
Operator(event_type, a, b) ==
    IF event_type = MINT THEN a - b ELSE a + b

\* event.amounts + [AssetAmount(ZERO)] * (POOL_MAX_NUMBER_TOKENS - len(event.amounts))
EventAmounts(amounts) ==
    amounts \o [i \in 1..(POOL_MAX_NUMBER_TOKENS - Len(amounts)) |-> 0]

\* list(map(operator, profit_loss_amounts, event_amounts))
MapOperator(event_type, profit_loss_amounts, event_amounts) ==
    [i \in 1..Min(Len(profit_loss_amounts), Len(event_amounts)) |->
        Operator(event_type, profit_loss_amounts[i], event_amounts[i])]

DefaultProfitLossAmounts == [i \in 1..POOL_MAX_NUMBER_TOKENS |-> 0]

\* the three defaultdicts, empty, and the order of the keys of the first
PoolEventsBalancesStart ==
    [pool_addr_to_events |-> <<>>,
     pool_order |-> <<>>,
     pool_addr_to_profit_loss_amounts |-> <<>>,
     pool_addr_to_usd_value |-> <<>>]

RECURSIVE AddPoolEvents(_, _, _)
\* the loop over the events, from the i-th on
AddPoolEvents(events, i, acc) ==
    IF i > Len(events) THEN acc
    ELSE LET event == events[i]
             pool == event.pool
             profit_loss_amounts ==
                 GetOrDefault(acc.pool_addr_to_profit_loss_amounts, pool,
                              DefaultProfitLossAmounts)
             usd_value == GetOrDefault(acc.pool_addr_to_usd_value, pool, 0)
         IN  AddPoolEvents(events, i + 1,
               [pool_addr_to_events |->
                    Put(acc.pool_addr_to_events, pool,
                        Append(GetOrDefault(acc.pool_addr_to_events, pool, <<>>),
                               event)),
                pool_order |->
                    IF pool \in DOMAIN acc.pool_addr_to_events
                    THEN acc.pool_order ELSE Append(acc.pool_order, pool),
                pool_addr_to_profit_loss_amounts |->
                    Put(acc.pool_addr_to_profit_loss_amounts, pool,
                        MapOperator(event.event_type, profit_loss_amounts,
                                    EventAmounts(event.amounts))),
                pool_addr_to_usd_value |->
                    Put(acc.pool_addr_to_usd_value, pool,
                        Operator(event.event_type, usd_value, event.usd_value))])

RECURSIVE AddUnderlyingTokensBalance(_, _, _)
\* the loop over the underlying tokens' balances of one pool balance
AddUnderlyingTokensBalance(balances, idx, acc) ==
    IF idx > Len(balances) THEN acc
    ELSE AddUnderlyingTokensBalance(balances, idx + 1,
            [profit_loss_amounts |->
                 [acc.profit_loss_amounts EXCEPT ![idx] = @ + balances[idx].amount],
             usd_value |-> acc.usd_value + balances[idx].usd_value])

RECURSIVE AddPoolBalances(_, _, _)
\* the loop over the current pool balances, from the i-th on
AddPoolBalances(pool_balances, i, acc) ==
    IF i > Len(pool_balances) THEN acc
    ELSE LET pool_balance == pool_balances[i]
             pool == pool_balance.pool
             added == AddUnderlyingTokensBalance(
                          pool_balance.underlying_tokens_balance, 1,
                          [profit_loss_amounts |->
                               GetOrDefault(acc.pool_addr_to_profit_loss_amounts,
                                            pool, DefaultProfitLossAmounts),
                           usd_value |->
                               GetOrDefault(acc.pool_addr_to_usd_value, pool, 0)])
         IN  AddPoolBalances(pool_balances, i + 1,
               [acc EXCEPT
                  !.pool_addr_to_profit_loss_amounts =
                      Put(@, pool, added.profit_loss_amounts),
                  !.pool_addr_to_usd_value =
                      IF pool_balance.underlying_tokens_balance = <<>>
                      THEN @ ELSE Put(@, pool, added.usd_value)])

CalculatePoolEventsBalancesOfAllPools(address, events, pool_balances) ==
    LET acc == AddPoolBalances(pool_balances, 1,
                   AddPoolEvents(events, 1, PoolEventsBalancesStart))
        others == SelectSeq([i \in DOMAIN pool_balances |-> pool_balances[i].pool],
                            LAMBDA pool : pool \notin DOMAIN acc.pool_addr_to_events)
        pools == acc.pool_order \o others
    IN  [i \in 1..Len(pools) |->
            LET pool == pools[i]
            IN  [address |-> address,
                 pool |-> pool,
                 events |-> GetOrDefault(acc.pool_addr_to_events, pool, <<>>),
                 profit_loss_amounts |->
                     SubSeq(GetOrDefault(acc.pool_addr_to_profit_loss_amounts,
                                         pool, DefaultProfitLossAmounts), 1,
                            Len(underlying_tokens(pool))),
                 usd_profit_loss |->
                     GetOrDefault(acc.pool_addr_to_usd_value, pool, 0)]]

CalculatePoolEventsBalancesUntruncated(address, events, pool_balances) ==
    LET acc == AddPoolBalances(pool_balances, 1,
                   AddPoolEvents(events, 1, PoolEventsBalancesStart))
    IN  [i \in 1..Len(acc.pool_order) |->
            LET pool == acc.pool_order[i]
            IN  [address |-> address,
                 pool |-> pool,
                 events |-> acc.pool_addr_to_events[pool],
                 profit_loss_amounts |->
                     acc.pool_addr_to_profit_loss_amounts[pool],
                 usd_profit_loss |-> acc.pool_addr_to_usd_value[pool]]]

\* the list of BalancerPoolEventsBalance: one per key of pool_addr_to_events
CalculatePoolEventsBalances(address, events, pool_balances) ==
    LET acc == AddPoolBalances(pool_balances, 1,
                   AddPoolEvents(events, 1, PoolEventsBalancesStart))
    IN  [i \in 1..Len(acc.pool_order) |->
            LET pool == acc.pool_order[i]
            IN  [address |-> address,
                 pool |-> pool,
                 events |-> acc.pool_addr_to_events[pool],
                 profit_loss_amounts |->
                     SubSeq(acc.pool_addr_to_profit_loss_amounts[pool], 1,
                            Len(underlying_tokens(pool))),
                 usd_profit_loss |-> acc.pool_addr_to_usd_value[pool]]]

----------------------------------------------------------------------------
(* _get_protocol_balance_graph *)

\* a pool share of the Balancer subgraph with a balance above zero
PoolShare(id, address, pool) ==
    [id |-> id, address |-> address, pool |-> pool, malformed |-> FALSE]

RECURSIVE SortedById(_)
SortedById(S) ==
    IF S = {} THEN <<>>
    ELSE LET m == CHOOSE x \in S : \A y \in S : x.id <= y.id
         IN  <<m>> \o SortedById(S \ {m})

\* result of the poolShares query: the shares of the addresses
PoolSharesQuery(pool_shares, addresses, offset) ==
    Page(SortedById({x \in pool_shares : x.address \in addresses}), offset)

\* the tokens with a price oracle (EvmToken.has_oracle)
HasOracle == {"X"}

\* the locals at the start of _get_protocol_balance_graph
SharesStart(pool_shares, addresses) ==
    [pool_shares |-> pool_shares,
     addresses |-> addresses,
     query_offset |-> 0,
     address_to_pool_balances |-> <<>>,
     known_tokens |-> {},
     unknown_tokens |-> {},
     requests |-> <<>>,
     phase |-> "query"]

RECURSIVE AddPoolShares(_, _, _)
\* the loop over the pool shares of a page, from the i-th on
AddPoolShares(raw_pool_shares, i, st) ==
    IF i > Len(raw_pool_shares) THEN st
    ELSE LET share == raw_pool_shares[i]
             tokens == Range(underlying_tokens(share.pool))
         IN  AddPoolShares(raw_pool_shares, i + 1,
               [st EXCEPT
                  !.known_tokens = @ \cup (tokens \cap HasOracle),
                  !.unknown_tokens = @ \cup (tokens \ HasOracle),
                  !.address_to_pool_balances =
                      Put(@, share.address,
                          Append(GetOrDefault(@, share.address, <<>>),
                                 share.pool))])

\* one poolShares request: the page's shares are deserialized (RemoteError
\* at a malformed one) and added, then the loop ends or the offset advances
SharesPage(st) ==
    LET raw_pool_shares ==
            PoolSharesQuery(st.pool_shares, st.addresses, st.query_offset)
        added == AddPoolShares(raw_pool_shares, 1,
                     [st EXCEPT !.requests =
                          Append(@, [query |-> "shares", offset |-> st.query_offset])])
    IN  IF HasMalformed(raw_pool_shares)
        THEN [st EXCEPT !.requests = added.requests, !.phase = "raised"]
        ELSE IF Len(raw_pool_shares) < GRAPH_QUERY_LIMIT
        THEN [added EXCEPT !.phase = "done"]
        ELSE [added EXCEPT !.query_offset = @ + GRAPH_QUERY_LIMIT]

----------------------------------------------------------------------------
(* _get_address_to_pool_events_balances: the split of the addresses *)

NewAddresses(ld, addresses) ==
    {a \in addresses : get_used_query_range(ld, a) = NoRange}

ExistingAddresses(ld, addresses) ==
    {a \in addresses : get_used_query_range(ld, a) # NoRange}

RECURSIVE MinOfStarts(_, _, _)
MinOfStarts(ld, addresses, least) ==
    IF addresses = {} THEN least
    ELSE LET address == CHOOSE a \in addresses : TRUE
         IN  MinOfStarts(ld, addresses \ {address},
                         Min(least, get_used_query_range(ld, address)[1]))

MinToTimestampFromStart(ld, addresses, to_timestamp) ==
    MinOfStarts(ld, {a \in addresses : get_used_query_range(ld, a) # NoRange},
                to_timestamp)

RECURSIVE MinOfEnds(_, _, _)
MinOfEnds(ld, addresses, least) ==
    IF addresses = {} THEN least
    ELSE LET address == CHOOSE a \in addresses : TRUE
         IN  MinOfEnds(ld, addresses \ {address},
                       Min(least, get_used_query_range(ld, address)[2]))

\* min_to_timestamp after the loop over the addresses
MinToTimestamp(ld, addresses, to_timestamp) ==
    MinOfEnds(ld, ExistingAddresses(ld, addresses), to_timestamp)

----------------------------------------------------------------------------
(* _update_tokens_prices_in_address_to_pool_balances *)

\* a BalancerPoolTokenBalance: the token, the user's amount of it, its USD
\* price and the USD value of the amount
BalancerPoolTokenBalance(token, amount, usd_price, usd_value) ==
    [token |-> token, amount |-> amount, usd_price |-> usd_price,
     usd_value |-> usd_value]

\* a BalancerPoolBalance: the pool, the balances of its underlying tokens and
\* the USD value of the user's balance
BalancerPoolBalance(pool, underlying_tokens_balance, usd_value) ==
    [pool |-> pool, underlying_tokens_balance |-> underlying_tokens_balance,
     usd_value |-> usd_value]

ZERO_PRICE == 0

UsdPriceUnknownFirst(known_token_to_prices, unknown_token_to_prices, token) ==
    GetOrDefault(unknown_token_to_prices, token,
                 GetOrDefault(known_token_to_prices, token, ZERO_PRICE))

\* known_token_to_prices.get(address, unknown_token_to_prices.get(address,
\* ZERO_PRICE))
UsdPrice(known_token_to_prices, unknown_token_to_prices, token) ==
    GetOrDefault(known_token_to_prices, token,
                 GetOrDefault(unknown_token_to_prices, token, ZERO_PRICE))

\* the body of the loop over the underlying tokens' balances: price and value
\* are set when the price is not ZERO_PRICE
UpdatePoolTokenBalance(pool_token_balance, usd_price) ==
    IF usd_price # ZERO_PRICE
    THEN [pool_token_balance EXCEPT
             !.usd_price = usd_price,
             !.usd_value = pool_token_balance.amount * usd_price]
    ELSE pool_token_balance

RECURSIVE TotalUsdValue(_)
\* total_usd_value, added up over the underlying tokens' balances
TotalUsdValue(balances) ==
    IF balances = <<>> THEN 0
    ELSE Head(balances).usd_value + TotalUsdValue(Tail(balances))

\* the body of the loop over the pool balances of an address
UpdatePoolBalance(pool_balance, known_token_to_prices, unknown_token_to_prices) ==
    LET balances == pool_balance.underlying_tokens_balance
        updated == [i \in DOMAIN balances |->
                       UpdatePoolTokenBalance(balances[i],
                           UsdPrice(known_token_to_prices,
                                    unknown_token_to_prices, balances[i].token))]
    IN  [pool_balance EXCEPT
            !.underlying_tokens_balance = updated,
            !.usd_value = TotalUsdValue(updated)]

\* _update_tokens_prices_in_address_to_pool_balances: the balances it leaves
UpdateTokensPricesInAddressToPoolBalances(address_to_pool_balances, known_token_to_prices, unknown_token_to_prices) ==
    [a \in DOMAIN address_to_pool_balances |->
        [i \in DOMAIN address_to_pool_balances[a] |->
            UpdatePoolBalance(address_to_pool_balances[a][i],
                              known_token_to_prices, unknown_token_to_prices)]]

----------------------------------------------------------------------------
(* get_events_history, one caller *)

\* what get_balances returns: the current balances of A in a pool it has
\* events of and in a pool it has none of; B has no balance
LivePoolBalances ==
    [a \in {"A"} |->
        <<PoolBalance("P1", <<UnderlyingTokenBalance("X", 1, 1),
                              UnderlyingTokenBalance("Y", 1, 2)>>),
          PoolBalance("P3", <<UnderlyingTokenBalance("Z", 1, 3)>>)>>]

\* get_balances(addresses)
get_balances(addresses) ==
    [a \in addresses \cap DOMAIN LivePoolBalances |-> LivePoolBalances[a]]

\* the loop over db_address_to_events that ends
\* _get_address_to_pool_events_balances
AddressToPoolEventsBalances(db_address_to_events, address_to_pool_balances) ==
    [a \in DOMAIN db_address_to_events |->
        CalculatePoolEventsBalances(
            a, db_address_to_events[a],
            GetOrDefault(address_to_pool_balances, a, <<>>))]

FromTimestamps == {0, 1}

WithCurrentBalancesAlways(from_timestamp) == TRUE

\* if from_timestamp == Timestamp(0): the current balances are requested
WithCurrentBalances(from_timestamp) == from_timestamp = 0

NoEventsData == [a \in {} |-> <<>>]

\* the locals of a call that has just entered the lock
Locals(addresses, reset_db_data, from_timestamp, to_timestamp) ==
    [addresses |-> addresses,
     reset_db_data |-> reset_db_data,
     from_timestamp |-> from_timestamp,
     to_timestamp |-> to_timestamp,
     new_addresses |-> {},
     existing_addresses |-> {},
     min_to_timestamp |-> to_timestamp,
     fetched |-> NoEventsData,
     new_requests |-> <<>>,
     existing_requests |-> <<>>,
     range_updated |-> {},
     address_to_events_data |-> NoEventsData,
     balancer_events |-> <<>>,
     events_written |-> FALSE,
     db_address_to_events |-> NoEventsData,
     address_to_pool_events_balances |-> NoEventsData,
     failed |-> {},
     error |-> ""]

NoLocals == Locals({}, FALSE, 0, 0)

\* the positions between the acquisition of the lock and its release
InLock == {"reset", "split", "fetch_new", "range_new", "fetch_existing",
           "range_existing", "aggregate", "write", "read", "balances",
           "return", "raise"}

\* the call is made; it waits for the lock
Call(p) ==
    /\ pc[p] = "idle"
    /\ pc' = [pc EXCEPT ![p] = "wait"]
    /\ UNCHANGED <<trades_lock, ledger, db_events, loc, indexer, fx, agg, pnl, px, pg, bal, last>>

\* the body of `with self.trades_lock` starts; the arguments of the call
\* show from here on
EnterLock(p) ==
    /\ pc[p] = "wait"
    /\ trades_lock' = trades_lock - 1
    /\ \E addresses \in (SUBSET Addresses) \ {{}}, reset_db_data \in BOOLEAN,
          from_timestamp \in FromTimestamps, to_timestamp \in Timestamps :
          /\ loc' = [loc EXCEPT ![p] = Locals(addresses, reset_db_data,
                                              from_timestamp, to_timestamp)]
          /\ pc' = [pc EXCEPT ![p] = IF reset_db_data THEN "reset" ELSE "split"]
    /\ UNCHANGED <<ledger, db_events, indexer, fx, agg, pnl, px, pg, bal, last>>

AcquireLockNoWait(p) == EnterLock(p)

\* Semaphore.acquire: blocks while the counter is 0
AcquireLock(p) ==
    /\ trades_lock > 0
    /\ EnterLock(p)

\* delete_balancer_events_data: the events and the used query ranges go
delete_balancer_events_data ==
    /\ db_events' = {}
    /\ ledger' = EmptyLedger

ResetDbData(p) ==
    /\ pc[p] = "reset"
    /\ delete_balancer_events_data
    /\ pc' = [pc EXCEPT ![p] = "split"]
    /\ UNCHANGED <<trades_lock, loc, indexer, fx, agg, pnl, px, pg, bal, last>>

AfterNewWithoutComparison(l) ==
    IF l.existing_addresses # {} THEN "fetch_existing" ELSE "aggregate"

\* the position after the new addresses are done
AfterNew(l) ==
    IF l.existing_addresses # {} /\ l.to_timestamp > l.min_to_timestamp
    THEN "fetch_existing" ELSE "aggregate"

\* the used query ranges are read
SplitAddresses(p) ==
    /\ pc[p] = "split"
    /\ LET l == [loc[p] EXCEPT
                   !.new_addresses = NewAddresses(ledger, loc[p].addresses),
                   !.existing_addresses = ExistingAddresses(ledger, loc[p].addresses),
                   !.min_to_timestamp = MinToTimestamp(ledger, loc[p].addresses,
                                                       loc[p].to_timestamp)]
       IN  /\ loc' = [loc EXCEPT ![p] = l]
           /\ pc' = [pc EXCEPT ![p] = IF l.new_addresses # {}
                                      THEN "fetch_new" ELSE AfterNew(l)]
    /\ UNCHANGED <<trades_lock, ledger, db_events, indexer, fx, agg, pnl, px, pg, bal, last>>

BatchAddresses(l, batch) ==
    IF batch = "fetch_new" THEN l.new_addresses ELSE l.existing_addresses

BatchFromCallersFrom(l, batch) ==
    IF batch = "fetch_new" THEN l.from_timestamp ELSE l.min_to_timestamp

\* from_timestamp of the batch's _get_address_to_events_data call
BatchFrom(l, batch) ==
    IF batch = "fetch_new" THEN 0 ELSE l.min_to_timestamp

\* _get_address_to_events_data up to its write: the ADD_LIQUIDITY fetch,
\* then the REMOVE_LIQUIDITY fetch, every request answered
FetchEventsData(p) ==
    /\ pc[p] \in {"fetch_new", "fetch_existing"}
    /\ LET l == loc[p]
           addresses == BatchAddresses(l, pc[p])
           from_timestamp == BatchFrom(l, pc[p])
           add == FetchRun(FetchStart(addresses, ADD_LIQUIDITY,
                                      from_timestamp, l.to_timestamp), indexer)
           rem == FetchRun(FetchStart(addresses, REMOVE_LIQUIDITY,
                                      from_timestamp, l.to_timestamp), indexer)
           requests == add.requests \o rem.requests
       IN  /\ add.phase = "done"
           /\ rem.phase = "done"
           /\ loc' = [loc EXCEPT ![p] =
                    [l EXCEPT
                       !.fetched = EventsData(FetchResult(add), FetchResult(rem)),
                       !.new_requests =
                           IF pc[p] = "fetch_new" THEN requests ELSE @,
                       !.existing_requests =
                           IF pc[p] = "fetch_existing" THEN requests ELSE @]]
    /\ pc' = [pc EXCEPT ![p] = IF pc[p] = "fetch_new"
                               THEN "range_new" ELSE "range_existing"]
    /\ UNCHANGED <<trades_lock, ledger, db_events, indexer, fx, agg, pnl, px, pg, bal, last>>

\* an exception is raised in the body of the `with` block
Raise(p, error) ==
    /\ loc' = [loc EXCEPT ![p].error = error]
    /\ pc' = [pc EXCEPT ![p] = "raise"]
    /\ UNCHANGED trades_lock

\* the key of the result a request asks for
Schema(request) ==
    CASE request.query = "invest" /\ request.event_type = ADD_LIQUIDITY ->
             "addLiquidities"
      [] request.query = "invest" /\ request.event_type = REMOVE_LIQUIDITY ->
             "removeLiquidities"
      [] request.query = "bpt" /\ request.event_type = MINT -> "mints"
      [] request.query = "bpt" /\ request.event_type = BURN -> "burns"
      [] request.query = "shares" -> "poolShares"

\* the requests of get_balances that a RemoteError can end
BalancesSchemas == {"poolShares", "tokenPrices", "tokenDayDatas"}

PropagatesFromEventFetchesOnly(schema) ==
    schema \in {"addLiquidities", "removeLiquidities", "mints", "burns"}

\* whether the RemoteError of a request (the transport's, or the one raised
\* for a result without its key) leaves the method that made the request:
\* every request loop re-raises, and the callers let it pass, but for the
\* try / except RemoteError around the tokenDayDatas request
Propagates(schema) == schema # "tokenDayDatas"

\* what the ledger holds when a request of the batch's fetch raises: the
\* write of _get_address_to_events_data comes after both passes
LedgerAtFailureWrittenAfterAddPass(ld, l, batch, request) ==
    IF request.event_type \in {REMOVE_LIQUIDITY, BURN}
    THEN UpdateUsedQueryRange(ld, BatchAddresses(l, batch),
                              BatchFrom(l, batch), l.to_timestamp)
    ELSE ld

LedgerAtFailure(ld, l, batch, request) == ld

\* the k-th request of the batch's fetch raises RemoteError, or its result
\* lacks its key: the ADD_LIQUIDITY pass, then the REMOVE_LIQUIDITY pass, run
\* up to that request
FetchRemoteFailure(p) ==
    /\ pc[p] \in {"fetch_new", "fetch_existing"}
    /\ LET l == loc[p]
           addresses == BatchAddresses(l, pc[p])
           from_timestamp == BatchFrom(l, pc[p])
           add == FetchRun(FetchStart(addresses, ADD_LIQUIDITY,
                                      from_timestamp, l.to_timestamp), indexer)
           rem == FetchRun(FetchStart(addresses, REMOVE_LIQUIDITY,
                                      from_timestamp, l.to_timestamp), indexer)
           requests == add.requests \o rem.requests
       IN  \E k \in DOMAIN requests :
             LET made == SubSeq(requests, 1, k)
             IN  /\ loc' = [loc EXCEPT ![p] =
                      [l EXCEPT
                         !.new_requests =
                             IF pc[p] = "fetch_new" THEN made ELSE @,
                         !.existing_requests =
                             IF pc[p] = "fetch_existing" THEN made ELSE @,
                         !.failed = @ \cup {Schema(requests[k])},
                         !.error = "RemoteError"]]
                 /\ ledger' = LedgerAtFailure(ledger, l, pc[p], requests[k])
    /\ pc' = [pc EXCEPT ![p] = "raise"]
    /\ UNCHANGED <<trades_lock, db_events, indexer, fx, agg, pnl, px, pg, bal, last>>

\* the write of _get_address_to_events_data, then the batch's events data
\* join address_to_events_data
WriteUsedQueryRange(p) ==
    /\ pc[p] \in {"range_new", "range_existing"}
    /\ LET l == loc[p]
           batch == IF pc[p] = "range_new" THEN "fetch_new" ELSE "fetch_existing"
           addresses == BatchAddresses(l, batch)
       IN  /\ ledger' = UpdateUsedQueryRange(ledger, addresses,
                                             BatchFrom(l, batch), l.to_timestamp)
           /\ loc' = [loc EXCEPT ![p] =
                        [l EXCEPT
                           !.range_updated = @ \cup addresses,
                           !.address_to_events_data =
                               [a \in (DOMAIN @) \cup (DOMAIN l.fetched) |->
                                   IF a \in DOMAIN l.fetched
                                   THEN l.fetched[a] ELSE @[a]],
                           !.fetched = NoEventsData]]
           /\ pc' = [pc EXCEPT ![p] = IF pc[p] = "range_new"
                                      THEN AfterNew(l) ELSE "aggregate"]
    /\ UNCHANGED <<trades_lock, db_events, indexer, fx, agg, pnl, px, pg, bal, last>>

\* _get_balancer_aggregated_events_data, when there are events data
AggregateEvents(p) ==
    /\ pc[p] = "aggregate"
    /\ LET l == loc[p]
           got == AggregatedEventsData(l.address_to_events_data, indexer.prices)
       IN  IF DOMAIN l.address_to_events_data = {}
           THEN /\ pc' = [pc EXCEPT ![p] = "read"]
                /\ UNCHANGED <<trades_lock, loc>>
           ELSE IF got.error # ""
           THEN Raise(p, got.error)
           ELSE /\ loc' = [loc EXCEPT ![p].balancer_events = got.balancer_events]
                /\ pc' = [pc EXCEPT ![p] = "write"]
                /\ UNCHANGED trades_lock
    /\ UNCHANGED <<ledger, db_events, indexer, fx, agg, pnl, px, pg, bal, last>>

\* with self.database.user_write(): add_balancer_events(...)
WriteEvents(p) ==
    /\ pc[p] = "write"
    /\ db_events' = add_balancer_events(db_events, loc[p].balancer_events)
    /\ loc' = [loc EXCEPT ![p].events_written = TRUE]
    /\ pc' = [pc EXCEPT ![p] = "read"]
    /\ UNCHANGED <<trades_lock, ledger, indexer, fx, agg, pnl, px, pg, bal, last>>

\* the events of the addresses are read back for the window asked for; with
\* no event, or with a from_timestamp other than 0, the pool events balances
\* are those of the events alone
ReadEvents(p) ==
    /\ pc[p] = "read"
    /\ LET l == loc[p]
           read == DbAddressToEvents(db_events, l.addresses,
                                     l.from_timestamp, l.to_timestamp)
       IN  /\ loc' = [loc EXCEPT
                        ![p].db_address_to_events = read,
                        ![p].address_to_pool_events_balances =
                            IF DOMAIN read # {} /\ WithCurrentBalances(l.from_timestamp)
                            THEN @
                            ELSE AddressToPoolEventsBalances(read, NoEventsData)]
           /\ pc' = [pc EXCEPT ![p] =
                        IF DOMAIN read # {} /\ WithCurrentBalances(l.from_timestamp)
                        THEN "balances" ELSE "return"]
    /\ UNCHANGED <<trades_lock, ledger, db_events, indexer, fx, agg, pnl, px, pg, bal, last>>

\* get_balances answers: the pool events balances take the current balances in
GetBalances(p) ==
    /\ pc[p] = "balances"
    /\ loc' = [loc EXCEPT ![p].address_to_pool_events_balances =
                  AddressToPoolEventsBalances(loc[p].db_address_to_events,
                                              get_balances(loc[p].addresses))]
    /\ pc' = [pc EXCEPT ![p] = "return"]
    /\ UNCHANGED <<trades_lock, ledger, db_events, indexer, fx, agg, pnl, px, pg, bal, last>>

\* a request of get_balances raises RemoteError, or its result lacks its
\* key: the call ends there, or goes on when the error is caught
GetBalancesRemoteFailure(p) ==
    /\ pc[p] = "balances"
    /\ \E schema \in BalancesSchemas :
          /\ schema = "tokenDayDatas" => indexer.prices.graph_uniswap
          /\ loc' = [loc EXCEPT
                        ![p].failed = @ \cup {schema},
                        ![p].error = IF Propagates(schema)
                                     THEN "RemoteError" ELSE @,
                        ![p].address_to_pool_events_balances =
                            IF Propagates(schema) THEN @
                            ELSE AddressToPoolEventsBalances(
                                     loc[p].db_address_to_events,
                                     get_balances(loc[p].addresses))]
          /\ pc' = [pc EXCEPT ![p] = IF Propagates(schema)
                                     THEN "raise" ELSE "return"]
    /\ UNCHANGED <<trades_lock, ledger, db_events, indexer, fx, agg, pnl, px, pg, bal, last>>

ReturnKeepsLockAtException(p) ==
    /\ pc[p] \in {"return", "raise"}
    /\ trades_lock' = IF pc[p] = "raise" THEN trades_lock ELSE trades_lock + 1
    /\ pc' = [pc EXCEPT ![p] = "idle"]
    /\ loc' = [loc EXCEPT ![p] = NoLocals]
    /\ UNCHANGED <<ledger, db_events, indexer, fx, agg, pnl, px, pg, bal, last>>

\* the `with` block is left, by the return or by the exception: the lock is
\* released and the caller has its result or its exception
Return(p) ==
    /\ pc[p] \in {"return", "raise"}
    /\ trades_lock' = trades_lock + 1
    /\ pc' = [pc EXCEPT ![p] = "idle"]
    /\ loc' = [loc EXCEPT ![p] = NoLocals]
    /\ UNCHANGED <<ledger, db_events, indexer, fx, agg, pnl, px, pg, bal, last>>

\* deactivate(), called by the module manager at any moment
Deactivate ==
    /\ delete_balancer_events_data
    /\ UNCHANGED <<trades_lock, pc, loc, indexer, fx, agg, pnl, px, pg, bal, last>>

IdleAgg == [input |-> NoEventsData, prices |-> PriceEnv({}, FALSE),
            phase |-> "none", error |-> "", balancer_events |-> <<>>]

IdlePnl == [address |-> "A", events |-> <<>>, pool_balances |-> <<>>,
            phase |-> "none", result |-> <<>>]

IdlePx == [PriceStart("current", PriceEnv({}, FALSE), {}, Now) EXCEPT !.phase = "none"]

IdlePg == [SharesStart({}, {}) EXCEPT !.phase = "none"]

\* no call of get_events_history has ended yet
NoCall == [addresses |-> {}, from_timestamp |-> 0, to_timestamp |-> 0,
           returned |-> FALSE, ledger |-> EmptyLedger, db_events |-> {},
           db_address_to_events |-> NoEventsData]

IdleBal == [address_to_pool_balances |-> NoEventsData,
            known_token_to_prices |-> <<>>,
            unknown_token_to_prices |-> <<>>,
            phase |-> "none", result |-> NoEventsData]

Init ==
    /\ trades_lock = 1
    /\ ledger = EmptyLedger
    /\ db_events = {}
    /\ pc = [p \in Procs |-> "idle"]
    /\ loc = [p \in Procs |-> NoLocals]
    /\ pnl = IdlePnl
    /\ px = IdlePx
    /\ pg = IdlePg
    /\ bal = IdleBal
    /\ last = NoCall
    /\ indexer = MainData
    /\ fx = IdleFetch
    /\ agg = IdleAgg

Next ==
    \/ \E p \in Procs :
        \/ Call(p)
        \/ AcquireLock(p)
        \/ ResetDbData(p)
        \/ SplitAddresses(p)
        \/ FetchEventsData(p)
        \/ FetchRemoteFailure(p)
        \/ WriteUsedQueryRange(p)
        \/ AggregateEvents(p)
        \/ WriteEvents(p)
        \/ ReadEvents(p)
        \/ GetBalances(p)
        \/ GetBalancesRemoteFailure(p)
        \/ Return(p)
    \/ Deactivate

Spec == Init /\ [][Next]_vars

\* the callers of SpecLive all ask for the history of one address, from the
\* start up to the last timestamp, with or without reset
AcquireLockOneRequest(p) ==
    /\ AcquireLock(p)
    /\ loc'[p].addresses = {"A"}
    /\ loc'[p].from_timestamp = 0
    /\ loc'[p].to_timestamp = MaxTs

\* the body of the `with` block, whichever way it goes
Running(p) ==
    \/ ResetDbData(p)
    \/ SplitAddresses(p)
    \/ FetchEventsData(p)
    \/ FetchRemoteFailure(p)
    \/ WriteUsedQueryRange(p)
    \/ AggregateEvents(p)
    \/ WriteEvents(p)
    \/ ReadEvents(p)
    \/ GetBalances(p)
    \/ GetBalancesRemoteFailure(p)

NextLive ==
    \/ \E p \in Procs :
        \/ Call(p)
        \/ AcquireLockOneRequest(p)
        \/ Running(p)
        \/ Return(p)
    \/ Deactivate

\* the positions in the body of the `with` block, before it is left
InBody == InLock \ {"return", "raise"}

\* the body of the `with` block comes to its end, by its return or by an
\* exception: every request is answered or fails and every loop ends; the
\* `with` statement then releases the semaphore; and a greenlet that waits
\* in Semaphore.acquire gets the semaphore at one of the times it is free
SpecLive ==
    /\ Init
    /\ [][NextLive]_vars
    /\ \A p \in Procs :
          /\ []<>(pc[p] \notin InBody)
          /\ WF_vars(Return(p))
          /\ SF_vars(AcquireLockOneRequest(p))

----------------------------------------------------------------------------
(* SpecRepeat: one caller calls get_events_history time after time, and   *)
(* nothing else runs; what each call was asked and how it ended is kept   *)

Caller == CHOOSE p \in Procs : TRUE

\* the `with` block is left; the arguments of the call, whether it returned,
\* the events it read and what it leaves in the database are recorded
ReturnRecorded ==
    /\ pc[Caller] \in {"return", "raise"}
    /\ trades_lock' = trades_lock + 1
    /\ pc' = [pc EXCEPT ![Caller] = "idle"]
    /\ loc' = [loc EXCEPT ![Caller] = NoLocals]
    /\ last' = [addresses |-> loc[Caller].addresses,
                from_timestamp |-> loc[Caller].from_timestamp,
                to_timestamp |-> loc[Caller].to_timestamp,
                returned |-> pc[Caller] = "return",
                ledger |-> ledger,
                db_events |-> db_events,
                db_address_to_events |-> loc[Caller].db_address_to_events]
    /\ UNCHANGED <<ledger, db_events, indexer, fx, agg, pnl, px, pg, bal>>

\* the to_timestamp arguments of the caller: an early and a late one
RepeatToTimestamps == {1, MaxTs}

\* the caller gets the lock; the windows start at 0
AcquireLockRepeat ==
    /\ AcquireLock(Caller)
    /\ loc'[Caller].from_timestamp = 0
    /\ loc'[Caller].to_timestamp \in RepeatToTimestamps

NextRepeat ==
    \/ Call(Caller)
    \/ AcquireLockRepeat
    \/ Running(Caller)
    \/ ReturnRecorded

SpecRepeat == Init /\ [][NextRepeat]_vars

InitFetch ==
    /\ trades_lock = 1
    /\ ledger = EmptyLedger
    /\ db_events = {}
    /\ pc = [p \in Procs |-> "idle"]
    /\ loc = [p \in Procs |-> NoLocals]
    /\ pnl = IdlePnl
    /\ px = IdlePx
    /\ pg = IdlePg
    /\ bal = IdleBal
    /\ last = NoCall
    /\ indexer \in FetchDataSets
    /\ \E addresses \in (SUBSET Addresses) \ {{}},
          event_type \in {ADD_LIQUIDITY, REMOVE_LIQUIDITY},
          start_ts \in 0..(MaxTs - 1), end_ts \in Timestamps :
          fx = FetchStart(addresses, event_type, start_ts, end_ts)
    /\ agg = IdleAgg

SpecFetch == InitFetch /\ [][NextFetch]_vars

----------------------------------------------------------------------------
(* SpecCursor: one call of _get_address_to_invest_events_graph on data     *)
(* sets whose events share one timestamp; the log of requests, which is a  *)
(* history of the call and no local of it, is not kept, so that a call     *)
(* that comes back to the locals it had is the cycle it is                 *)

\* the timestamp the events share
SharedTimestamp == 1

\* n joins of one address at one timestamp, each in a transaction of its own
\* with its MINT event
SameTimestampData(n) ==
    [invest |-> {InvestEvent("A", tx, 1, "P1", "X", 1, SharedTimestamp,
                             ADD_LIQUIDITY) : tx \in 1..n},
     bpt |-> {BPTEvent("A", tx, 2, "P1", 1, MINT) : tx \in 1..n},
     prices |-> PriceEnv({}, FALSE)]

\* from no event up to one more than a page at the skip limit can end with
CursorDataSets ==
    {SameTimestampData(n) :
        n \in 0..(GRAPH_QUERY_SKIP_LIMIT + GRAPH_QUERY_LIMIT + 1)}

InitCursor ==
    /\ trades_lock = 1
    /\ ledger = EmptyLedger
    /\ db_events = {}
    /\ pc = [p \in Procs |-> "idle"]
    /\ loc = [p \in Procs |-> NoLocals]
    /\ pnl = IdlePnl
    /\ px = IdlePx
    /\ pg = IdlePg
    /\ bal = IdleBal
    /\ last = NoCall
    /\ agg = IdleAgg
    /\ indexer \in CursorDataSets
    /\ \E addresses \in {{"A"}, {"A", "B"}},
          event_type \in {ADD_LIQUIDITY, REMOVE_LIQUIDITY},
          start_ts \in 0..SharedTimestamp :
          fx = FetchStart(addresses, event_type, start_ts, MaxTs)

CursorInvestPage ==
    /\ fx.phase = "invest"
    /\ fx' = [InvestPage(fx, indexer) EXCEPT !.requests = <<>>]
    /\ UNCHANGED <<trades_lock, ledger, db_events, pc, loc, indexer, agg, pnl,
                   px, pg, bal, last>>

CursorBPTPage ==
    /\ fx.phase = "bpt"
    /\ fx' = [BPTPage(fx, indexer) EXCEPT !.requests = <<>>]
    /\ UNCHANGED <<trades_lock, ledger, db_events, pc, loc, indexer, agg, pnl,
                   px, pg, bal, last>>

NextCursor == CursorInvestPage \/ CursorBPTPage

\* every request is answered, and the loop goes on with what it got
SpecCursor == InitCursor /\ [][NextCursor]_vars /\ WF_vars(NextCursor)

----------------------------------------------------------------------------
(* SpecAgg: one call of _get_balancer_aggregated_events_data *)

\* one address with a join of three tokens (one of them not of the pool) and
\* an exit of two whose event of the higher log index carries the earlier
\* timestamp, another address with one join
AggInvestEvents ==
    {InvestEvent("A", 1, 1, "P1", "X", 2, 1, ADD_LIQUIDITY),
     InvestEvent("A", 1, 2, "P1", "Y", 1, 1, ADD_LIQUIDITY),
     InvestEvent("A", 1, 3, "P1", "Z", 1, 1, ADD_LIQUIDITY),
     InvestEvent("A", 2, 1, "P1", "Y", 3, 2, REMOVE_LIQUIDITY),
     InvestEvent("A", 2, 2, "P1", "X", 1, 1, REMOVE_LIQUIDITY),
     InvestEvent("B", 3, 1, "P2", "Y", 1, 3, ADD_LIQUIDITY)}

\* two MINTs of one transaction and pool, a MINT of another pool, a BURN, and
\* the other address's MINT
AggBPTEvents ==
    {BPTEvent("A", 1, 4, "P1", 5, MINT),
     BPTEvent("A", 1, 5, "P1", 4, MINT),
     BPTEvent("A", 1, 6, "P2", 1, MINT),
     BPTEvent("A", 2, 3, "P1", 2, BURN),
     BPTEvent("B", 3, 2, "P2", 1, MINT)}

AggZeroPrices == {<<"X", 1>>, <<"Y", 1>>, <<"Y", 2>>}

OfType(S, event_type) == {e \in S : e.event_type = event_type}

\* the events data _get_address_to_events_data builds of fetched events
EventsDataOf(invest, bpt) ==
    EventsData([invest |-> AddressToSorted(OfType(invest, ADD_LIQUIDITY)),
                bpt |-> AddressToSorted(OfType(bpt, MINT))],
               [invest |-> AddressToSorted(OfType(invest, REMOVE_LIQUIDITY)),
                bpt |-> AddressToSorted(OfType(bpt, BURN))])

InitAgg ==
    /\ trades_lock = 1
    /\ ledger = EmptyLedger
    /\ db_events = {}
    /\ pc = [p \in Procs |-> "idle"]
    /\ loc = [p \in Procs |-> NoLocals]
    /\ pnl = IdlePnl
    /\ px = IdlePx
    /\ pg = IdlePg
    /\ bal = IdleBal
    /\ last = NoCall
    /\ indexer = NoData
    /\ fx = IdleFetch
    /\ \E invest \in SUBSET AggInvestEvents, bpt \in SUBSET AggBPTEvents,
          zero \in SUBSET AggZeroPrices, uniswap_error \in BOOLEAN,
          graph_uniswap \in BOOLEAN :
          agg = [input |-> EventsDataOf(invest, bpt),
                 prices |-> [PriceEnv(zero, uniswap_error) EXCEPT
                                !.graph_uniswap = graph_uniswap],
                 phase |-> "called", error |-> "", balancer_events |-> <<>>]

AggregateCall ==
    /\ agg.phase = "called"
    /\ LET got == AggregatedEventsData(agg.input, agg.prices)
       IN  agg' = [agg EXCEPT !.phase = "done",
                              !.error = got.error,
                              !.balancer_events = got.balancer_events]
    /\ UNCHANGED <<trades_lock, ledger, db_events, pc, loc, indexer, fx, pnl, px, pg, bal, last>>

NextAgg == AggregateCall

SpecAgg == InitAgg /\ [][NextAgg]_vars

----------------------------------------------------------------------------
(* SpecPnl: one call of _calculate_pool_events_balances *)

\* a BalancerEvent as the database returns it
StoredEvent(tx, log, ts, type, pool, lp_amount, usd_value, amounts) ==
    [tx_hash |-> tx, log_index |-> log, address |-> "A", timestamp |-> ts,
     event_type |-> type, pool |-> pool, lp_amount |-> lp_amount,
     usd_value |-> usd_value, amounts |-> amounts]

\* joins and exits of two pools; the last event has more amounts than its
\* pool has tokens now
PnlEvents ==
    {StoredEvent(1, 3, 1, MINT, "P1", 5, 4, <<2, 1>>),
     StoredEvent(2, 2, 2, MINT, "P1", 2, 1, <<1, 0>>),
     StoredEvent(3, 2, 3, BURN, "P1", 1, 3, <<1, 1>>),
     StoredEvent(4, 2, 1, MINT, "P2", 1, 2, <<1>>),
     StoredEvent(5, 1, 3, BURN, "P2", 1, 0, <<3>>),
     StoredEvent(6, 1, 2, BURN, "P1", 1, 5, <<1, 0, 2>>)}

\* the current balances: of a pool with events, of another, and of a pool
\* the address has no event of
PnlPoolBalances ==
    <<PoolBalance("P1", <<UnderlyingTokenBalance("X", 1, 1),
                          UnderlyingTokenBalance("Y", 2, 4)>>),
      PoolBalance("P2", <<UnderlyingTokenBalance("Y", 3, 6)>>),
      PoolBalance("P3", <<UnderlyingTokenBalance("Z", 1, 3)>>)>>

InitPnl ==
    /\ trades_lock = 1
    /\ ledger = EmptyLedger
    /\ db_events = {}
    /\ pc = [p \in Procs |-> "idle"]
    /\ loc = [p \in Procs |-> NoLocals]
    /\ indexer = NoData
    /\ fx = IdleFetch
    /\ agg = IdleAgg
    /\ px = IdlePx
    /\ pg = IdlePg
    /\ bal = IdleBal
    /\ last = NoCall
    /\ \E events \in SUBSET PnlEvents, kept \in SUBSET (DOMAIN PnlPoolBalances) :
          pnl = [address |-> "A",
                 events |-> SortedByTimestampLog(events),
                 pool_balances |-> SelectSeq(PnlPoolBalances,
                                       LAMBDA b : \E i \in kept : PnlPoolBalances[i] = b),
                 phase |-> "called",
                 result |-> <<>>]

CalculateCall ==
    /\ pnl.phase = "called"
    /\ pnl' = [pnl EXCEPT
                 !.phase = "done",
                 !.result = CalculatePoolEventsBalances(
                                pnl.address, pnl.events, pnl.pool_balances)]
    /\ UNCHANGED <<trades_lock, ledger, db_events, pc, loc, indexer, fx, agg, px, pg, bal, last>>

NextPnl == CalculateCall

SpecPnl == InitPnl /\ [][NextPnl]_vars

----------------------------------------------------------------------------
(* SpecBalances: one call of                                               *)
(* _update_tokens_prices_in_address_to_pool_balances                       *)

\* what a price map may hold of a token: nothing, or one of these prices
KnownPrices == {1, 2}

UnknownPrices == {0, 1, 2}

\* price and value an underlying token's balance has before the call: none
\* yet, or those of an earlier pricing
EarlierPrice == 3

PriceMaps(prices) ==
    UNION {[D -> prices] : D \in SUBSET {"X", "Y"}}

\* the balances of an address in a pool of two tokens and in a pool of one
UnpricedPoolBalances(x_price, y_price) ==
    [a \in {"A"} |->
        <<BalancerPoolBalance("P1",
              <<BalancerPoolTokenBalance("X", 2, x_price, 2 * x_price),
                BalancerPoolTokenBalance("Y", 3, y_price, 3 * y_price)>>,
              0),
          BalancerPoolBalance("P2",
              <<BalancerPoolTokenBalance("Y", 1, y_price, y_price)>>,
              0)>>]

InitBalances ==
    /\ trades_lock = 1
    /\ ledger = EmptyLedger
    /\ db_events = {}
    /\ pc = [p \in Procs |-> "idle"]
    /\ loc = [p \in Procs |-> NoLocals]
    /\ indexer = NoData
    /\ fx = IdleFetch
    /\ agg = IdleAgg
    /\ pnl = IdlePnl
    /\ px = IdlePx
    /\ pg = IdlePg
    /\ last = NoCall
    /\ \E x_price \in {0, EarlierPrice}, y_price \in {0, EarlierPrice},
          known \in PriceMaps(KnownPrices), unknown \in PriceMaps(UnknownPrices) :
          bal = [address_to_pool_balances |-> UnpricedPoolBalances(x_price, y_price),
                 known_token_to_prices |-> known,
                 unknown_token_to_prices |-> unknown,
                 phase |-> "called",
                 result |-> NoEventsData]

UpdateCall ==
    /\ bal.phase = "called"
    /\ bal' = [bal EXCEPT
                 !.phase = "done",
                 !.result = UpdateTokensPricesInAddressToPoolBalances(
                                bal.address_to_pool_balances,
                                bal.known_token_to_prices,
                                bal.unknown_token_to_prices)]
    /\ UNCHANGED <<trades_lock, ledger, db_events, pc, loc, indexer, fx, agg,
                   pnl, px, pg, last>>

NextBalances == UpdateCall

SpecBalances == InitBalances /\ [][NextBalances]_vars

----------------------------------------------------------------------------
(* SpecShares: one call of _get_protocol_balance_graph *)

\* the shares of two addresses in three pools
AllPoolShares ==
    {PoolShare(1, "A", "P1"), PoolShare(2, "A", "P2"), PoolShare(3, "B", "P1"),
     PoolShare(4, "A", "P3"), PoolShare(5, "B", "P2"), PoolShare(6, "B", "P3")}

InitShares ==
    /\ trades_lock = 1
    /\ ledger = EmptyLedger
    /\ db_events = {}
    /\ pc = [p \in Procs |-> "idle"]
    /\ loc = [p \in Procs |-> NoLocals]
    /\ indexer = NoData
    /\ fx = IdleFetch
    /\ agg = IdleAgg
    /\ pnl = IdlePnl
    /\ px = IdlePx
    /\ bal = IdleBal
    /\ last = NoCall
    /\ \E pool_shares \in SUBSET AllPoolShares,
          addresses \in (SUBSET Addresses) \ {{}} :
          pg = SharesStart(pool_shares, addresses)

SharesRequest ==
    /\ pg.phase = "query"
    /\ pg' = SharesPage(pg)
    /\ UNCHANGED <<trades_lock, ledger, db_events, pc, loc, indexer, fx, agg, pnl, px, bal, last>>

\* graph.query raises RemoteError, or the page lacks its key
SharesRemoteError ==
    /\ pg.phase = "query"
    /\ pg' = [pg EXCEPT !.phase = "raised"]
    /\ UNCHANGED <<trades_lock, ledger, db_events, pc, loc, indexer, fx, agg, pnl, px, bal, last>>

NextShares == SharesRequest \/ SharesRemoteError

SpecShares == InitShares /\ [][NextShares]_vars

----------------------------------------------------------------------------
(* SpecPrice: one price resolution *)

\* the tokens _get_protocol_balance_graph finds no oracle of
UnknownTokens == Tokens \ HasOracle

InitPrice ==
    /\ trades_lock = 1
    /\ ledger = EmptyLedger
    /\ db_events = {}
    /\ pc = [p \in Procs |-> "idle"]
    /\ loc = [p \in Procs |-> NoLocals]
    /\ indexer = NoData
    /\ fx = IdleFetch
    /\ agg = IdleAgg
    /\ pnl = IdlePnl
    /\ pg = IdlePg
    /\ bal = IdleBal
    /\ last = NoCall
    /\ \E oracle_error \in BOOLEAN, balancer_error \in BOOLEAN,
          uniswap_error \in BOOLEAN, graph_uniswap \in BOOLEAN :
          \/ \E token \in Tokens, timestamp \in EventTimestamps,
                zero \in SUBSET AggZeroPrices :
                px = PriceStart("historical",
                         [PriceEnv(zero, uniswap_error) EXCEPT
                             !.oracle_error = oracle_error,
                             !.graph_uniswap = graph_uniswap],
                         {token}, timestamp)
          \/ \E unknown_tokens \in SUBSET UnknownTokens \ {{}},
                priced \in SUBSET UnknownTokens,
                zero \in SUBSET (UnknownTokens \X {Now}) :
                px = PriceStart("current",
                         [PriceEnv(zero, uniswap_error) EXCEPT
                             !.balancer_price =
                                 [t \in Tokens |->
                                     IF t \in priced THEN 5 ELSE 0],
                             !.balancer_error = balancer_error,
                             !.graph_uniswap = graph_uniswap],
                         unknown_tokens, Now)

OracleRequest ==
    /\ px.phase = "oracle"
    /\ px' = PriceOracleStage(px)
    /\ UNCHANGED <<trades_lock, ledger, db_events, pc, loc, indexer, fx, agg,
                   pnl, pg, bal, last>>

BalancerRequest ==
    /\ px.phase = "balancer"
    /\ px' = PriceBalancerStage(px)
    /\ UNCHANGED <<trades_lock, ledger, db_events, pc, loc, indexer, fx, agg,
                   pnl, pg, bal, last>>

UniswapRequest ==
    /\ px.phase = "uniswap"
    /\ px' = PriceUniswapStage(px)
    /\ UNCHANGED <<trades_lock, ledger, db_events, pc, loc, indexer, fx, agg,
                   pnl, pg, bal, last>>

AddPriceWarnings ==
    /\ px.phase = "warn"
    /\ px' = PriceWarnings(px)
    /\ UNCHANGED <<trades_lock, ledger, db_events, pc, loc, indexer, fx, agg,
                   pnl, pg, bal, last>>

NextPrice ==
    \/ OracleRequest
    \/ BalancerRequest
    \/ UniswapRequest
    \/ AddPriceWarnings

SpecPrice == InitPrice /\ [][NextPrice]_vars

----------------------------------------------------------------------------
(* SpecPages: one fetch of any of the five kinds, on pages that may hold a *)
(* malformed item                                                         *)

\* no item, or one item, of S
AtMostOneOf(S) == {{}} \cup {{x} : x \in S}

InitPages ==
    /\ trades_lock = 1
    /\ ledger = EmptyLedger
    /\ db_events = {}
    /\ pc = [p \in Procs |-> "idle"]
    /\ loc = [p \in Procs |-> NoLocals]
    /\ agg = IdleAgg
    /\ pnl = IdlePnl
    /\ \/ /\ \E data \in FetchDataSets :
               \E m \in AtMostOneOf(data.invest \cup data.bpt) :
                   indexer = [data EXCEPT !.invest = WithMalformed(@, m),
                                          !.bpt = WithMalformed(@, m)]
          /\ \E addresses \in (SUBSET Addresses) \ {{}},
                event_type \in {ADD_LIQUIDITY, REMOVE_LIQUIDITY} :
                fx = FetchStart(addresses, event_type, 0, MaxTs)
          /\ pg = IdlePg
          /\ bal = IdleBal
          /\ last = NoCall
          /\ px = IdlePx
       \/ /\ indexer = NoData
          /\ fx = IdleFetch
          /\ \E pool_shares \in SUBSET AllPoolShares,
                addresses \in (SUBSET Addresses) \ {{}} :
                \E m \in AtMostOneOf(pool_shares) :
                    pg = SharesStart(WithMalformed(pool_shares, m), addresses)
          /\ bal = IdleBal
          /\ last = NoCall
          /\ px = IdlePx
       \/ /\ indexer = NoData
          /\ fx = IdleFetch
          /\ pg = IdlePg
          /\ bal = IdleBal
          /\ last = NoCall
          /\ \E balancer_error \in BOOLEAN, uniswap_error \in BOOLEAN,
                graph_uniswap \in BOOLEAN,
                malformed_token_prices \in SUBSET UnknownTokens,
                malformed_token_day_datas \in SUBSET UnknownTokens :
                LET env == [PriceEnv({}, uniswap_error) EXCEPT
                               !.balancer_error = balancer_error,
                               !.graph_uniswap = graph_uniswap,
                               !.malformed_token_prices = malformed_token_prices,
                               !.malformed_token_day_datas =
                                   malformed_token_day_datas]
                IN  \/ \E token \in Tokens, timestamp \in EventTimestamps :
                          px = PriceStart("historical", env, {token}, timestamp)
                    \/ \E unknown_tokens \in SUBSET UnknownTokens \ {{}},
                          priced \in SUBSET UnknownTokens :
                          px = PriceStart("current",
                                   [env EXCEPT !.balancer_price =
                                       [t \in Tokens |->
                                           IF t \in priced THEN 5 ELSE 0]],
                                   unknown_tokens, Now)

NextPages == NextFetch \/ NextShares \/ NextPrice

SpecPages == InitPages /\ [][NextPages]_vars

----------------------------------------------------------------------------
(* Claims *)

\* the batch whose fetch has returned and whose used query range is about
\* to be written
BatchAt(p) == IF pc[p] = "range_new" THEN "fetch_new" ELSE "fetch_existing"

BatchRequests(p) ==
    IF pc[p] = "range_new" THEN loc[p].new_requests ELSE loc[p].existing_requests

InvestRequestsOfBatch(p) ==
    {r \in Range(BatchRequests(p)) : r.query = "invest"}

Recorded(addresses) == {a \in addresses : ledger[a] # NoRange}

\* the window of the request and the range of the address share at most one
\* timestamp
SharesAtMostBoundary(r, range) ==
    Max(r.start_ts, range[1]) >= Min(r.end_ts, range[2])

\* the BPT event of the subgraph that belongs to an invest event
BPTEventOf(b, e) ==
    /\ b.address = e.address
    /\ b.tx_hash = e.tx_hash
    /\ b.pool = e.pool
    /\ b.event_type = BPTTypeOf(e.event_type)

\* C1: once a call of get_events_history has ended, by its return or by an
\* exception, no address has a used query range written by that call for a
\* batch that fetched events while that call's events were not stored: the
\* range write and the event insertion happen both or not at all.
C1_RangeAndEventsCommitTogether ==
    \A p \in Procs :
        pc[p] \in {"return", "raise"} =>
            \A a \in loc[p].range_updated \cap DOMAIN loc[p].address_to_events_data :
                ledger[a] # NoRange => loc[p].events_written

\* C2 as stated: no invest-event request covers more than the boundary
\* timestamp of a range the ledger holds for an address of the request.
C2_NoCoveredWindowRequested ==
    \A p \in Procs :
        pc[p] \in {"range_new", "range_existing"} =>
            \A r \in InvestRequestsOfBatch(p) :
                \A a \in Recorded(BatchAddresses(loc[p], BatchAt(p))) :
                    SharesAtMostBoundary(r, ledger[a])

\* C2 as amended: a new address has no range when it is requested; every
\* invest-event request for the existing addresses starts at or after the
\* lowest upper bound among their ranges, so an address with that lowest
\* bound is not requested again beyond its boundary timestamp.
C2_RequestsStartAtLowestCoveredBound ==
    \A p \in Procs :
        /\ pc[p] = "range_new" => Recorded(loc[p].new_addresses) = {}
        /\ pc[p] = "range_existing" =>
            LET recorded == Recorded(loc[p].existing_addresses)
            IN  \A r \in InvestRequestsOfBatch(p) :
                  \A a \in recorded :
                    /\ \E b \in recorded : r.start_ts >= ledger[b][2]
                    /\ (\A b \in recorded : ledger[a][2] <= ledger[b][2])
                           => SharesAtMostBoundary(r, ledger[a])

\* C2 witness: two existing addresses with different upper bounds have been
\* requested in one call.
C2_Witness ==
    \E p \in Procs :
        /\ pc[p] = "range_existing"
        /\ InvestRequestsOfBatch(p) # {}
        /\ \E a, b \in Recorded(loc[p].existing_addresses) :
              ledger[a][2] < ledger[b][2]

\* C3: no step lowers the upper bound of an address's used query range
\* (a step that deletes the range, the reset, aside).
C3_UpperBoundNeverDecreases ==
    [][\A a \in Addresses :
          (ledger[a] # NoRange /\ ledger'[a] # NoRange)
              => ledger'[a][2] >= ledger[a][2]]_vars

\* C4: at most one caller of get_events_history is between the acquisition
\* and the release of the lock, where the ledger and the events are read and
\* written, and the lock is taken exactly then.
C4_CallsNeverInterleave ==
    /\ \A p, q \in Procs : (pc[p] \in InLock /\ pc[q] \in InLock) => p = q
    /\ (\E p \in Procs : pc[p] \in InLock) <=> trades_lock = 0

\* C4 witness: one call is past its range write while another one waits.
C4_Witness ==
    \E p, q \in Procs :
        /\ pc[p] \in {"aggregate", "write", "read"}
        /\ loc[p].range_updated # {}
        /\ pc[q] = "wait"

\* C5: deactivate() takes no step while a call of get_events_history is
\* between the acquisition and the release of the lock.
C5_DeactivateNeverDuringSync ==
    [][Deactivate => \A p \in Procs : pc[p] \notin InLock]_vars

\* C6: when the fetch returns, the BPT events returned hold the subgraph's
\* BPT event of every invest event returned.
C6_BPTEventsOfAllPagesReturned ==
    fx.phase = "done" =>
        \A e \in fx.unique_invest :
            \A b \in indexer.bpt :
                BPTEventOf(b, e) =>
                    /\ b.address \in DOMAIN FetchResult(fx).bpt
                    /\ b \in Range(FetchResult(fx).bpt[b.address])

\* C7: a call that returns has fetched no invest event without a BPT event
\* in the subgraph (with one it would have failed with RemoteError).
C7_InvestEventWithoutBPTEventFails ==
    \A p \in Procs :
        pc[p] = "return" =>
            \A a \in DOMAIN loc[p].address_to_events_data :
                LET d == loc[p].address_to_events_data[a]
                IN  \A e \in Range(d.add_liquidities) \cup Range(d.remove_liquidities) :
                        \E b \in indexer.bpt : BPTEventOf(b, e)

\* the BPT events and the invest events of the aggregation's input
AggBPTEventsOf(a) == Range(agg.input[a].mints) \cup Range(agg.input[a].burns)

AggInvestEventsOf(a) ==
    Range(agg.input[a].add_liquidities) \cup Range(agg.input[a].remove_liquidities)

AggAllMatched ==
    \A a \in DOMAIN agg.input :
        \A b \in AggBPTEventsOf(a) :
            \E e \in AggInvestEventsOf(a) : BPTEventOf(b, e)

AggEventOf(c, b) ==
    /\ c.tx_hash = b.tx_hash
    /\ c.log_index = b.log_index
    /\ c.address = b.address
    /\ c.event_type = b.event_type
    /\ c.pool = b.pool

\* C8: when every BPT event has an invest event of its transaction and pool,
\* the aggregation returns exactly one BalancerEvent per BPT event; when
\* one has none, it fails and returns nothing.
C8_OneEventPerBPTEvent ==
    agg.phase = "done" =>
        IF AggAllMatched
        THEN /\ agg.error = ""
             /\ \A a \in DOMAIN agg.input :
                  \A b \in AggBPTEventsOf(a) :
                    Cardinality({i \in DOMAIN agg.balancer_events :
                                    AggEventOf(agg.balancer_events[i], b)}) = 1
             /\ \A i \in DOMAIN agg.balancer_events :
                  \E a \in DOMAIN agg.input :
                    \E b \in AggBPTEventsOf(a) :
                        AggEventOf(agg.balancer_events[i], b)
        ELSE /\ agg.error # ""
             /\ agg.balancer_events = <<>>

\* C9: the aggregation returns at most one BalancerEvent per address,
\* transaction, pool and kind.
C9_OneEventPerTransactionAndPool ==
    agg.phase = "done" =>
        \A i, j \in DOMAIN agg.balancer_events :
            LET c == agg.balancer_events[i]
                d == agg.balancer_events[j]
            IN  (/\ c.tx_hash = d.tx_hash
                 /\ c.pool = d.pool
                 /\ c.address = d.address
                 /\ c.event_type = d.event_type) => i = j

\* the invest events folded into a BalancerEvent
AggGroupOf(c) ==
    InvestEventsOf(IF c.event_type = MINT
                   THEN agg.input[c.address].add_liquidities
                   ELSE agg.input[c.address].remove_liquidities,
                   c.tx_hash, c.pool)

ZeroPriced(e) ==
    TokenPriceAtTimestampZeroIfError(agg.prices, e.token, e.timestamp).usd_price = 0

\* C10: a BalancerEvent whose group has an invest event with a zero price
\* has a USD value of zero.
C10_ZeroPriceZeroesUsdValue ==
    agg.phase = "done" =>
        \A i \in DOMAIN agg.balancer_events :
            LET c == agg.balancer_events[i]
            IN  (\E e \in Range(AggGroupOf(c)) : ZeroPriced(e)) => c.usd_value = 0

\* C10 witness: a group whose first invest event has a price and whose
\* second has none, so that a partial sum was there, and the value is zero.
C10_Witness ==
    /\ agg.phase = "done"
    /\ \E i \in DOMAIN agg.balancer_events :
          LET c == agg.balancer_events[i]
              group == AggGroupOf(c)
          IN  /\ Len(group) >= 2
              /\ ~ZeroPriced(group[1])
              /\ group[1].amount > 0
              /\ ZeroPriced(group[2])
              /\ c.usd_value = 0

\* C11: every BalancerEvent the aggregation returns has as many amounts as
\* its pool has underlying tokens.
C11_AmountsAsLongAsUnderlyingTokens ==
    agg.phase = "done" =>
        \A i \in DOMAIN agg.balancer_events :
            Len(agg.balancer_events[i].amounts)
                = Len(underlying_tokens(agg.balancer_events[i].pool))

\* C11 witness: events of a two-token pool and of a one-token pool, the
\* first with invest events of both tokens.
C11_Witness ==
    /\ agg.phase = "done"
    /\ \E i, j \in DOMAIN agg.balancer_events :
          LET c == agg.balancer_events[i]
              d == agg.balancer_events[j]
          IN  /\ Len(underlying_tokens(c.pool)) = 2
              /\ Len(AggGroupOf(c)) = 2
              /\ \A k \in 1..2 : c.amounts[k] > 0
              /\ Len(underlying_tokens(d.pool)) = 1
              /\ Len(d.amounts) = 1

\* the events and the current balances of a pool in the call's input
PnlEventsOf(pool) == SelectSeq(pnl.events, LAMBDA e : e.pool = pool)

PnlBalancesOf(pool) == SelectSeq(pnl.pool_balances, LAMBDA b : b.pool = pool)

\* the k-th amount of an event, zero when the event has fewer amounts
AmountAt(amounts, k) == IF k \in DOMAIN amounts THEN amounts[k] ELSE 0

RECURSIVE SumSeq(_)
\* the sum of a sequence of integers
SumSeq(xs) == IF xs = <<>> THEN 0 ELSE Head(xs) + SumSeq(Tail(xs))

\* +x for the events of the kind counted positive, -x for the others
Signed(e, positive, x) == IF e.event_type = positive THEN x ELSE 0 - x

\* the amounts of the k-th token and the USD values, the events of the one
\* kind counted positive and those of the other negative, the current
\* balances added
SignedAmount(pool, k, positive) ==
    LET events == PnlEventsOf(pool)
        balances == PnlBalancesOf(pool)
    IN  SumSeq([i \in DOMAIN events |->
                   Signed(events[i], positive, AmountAt(events[i].amounts, k))])
        + SumSeq([i \in DOMAIN balances |->
                   IF k \in DOMAIN balances[i].underlying_tokens_balance
                   THEN balances[i].underlying_tokens_balance[k].amount ELSE 0])

SignedUsdValue(pool, positive) ==
    LET events == PnlEventsOf(pool)
        balances == PnlBalancesOf(pool)
    IN  SumSeq([i \in DOMAIN events |->
                   Signed(events[i], positive, events[i].usd_value)])
        + SumSeq([i \in DOMAIN balances |->
                   SumSeq([j \in DOMAIN balances[i].underlying_tokens_balance |->
                             balances[i].underlying_tokens_balance[j].usd_value])])

ProfitLossSignedBy(positive) ==
    pnl.phase = "done" =>
        \A i \in DOMAIN pnl.result :
            LET r == pnl.result[i]
            IN  /\ \A k \in DOMAIN r.profit_loss_amounts :
                      r.profit_loss_amounts[k] = SignedAmount(r.pool, k, positive)
                /\ r.usd_profit_loss = SignedUsdValue(r.pool, positive)

\* C12 as stated: in the profit/loss of a pool the amounts and the USD value
\* of a MINT event are added and those of a BURN event subtracted, and the
\* current balance is added.
C12_MintAddedBurnSubtracted == ProfitLossSignedBy(MINT)

\* C12 as amended: in the profit/loss of a pool the amounts and the USD
\* value of a MINT event are subtracted and those of a BURN event added, and
\* the current balance's amounts and USD values are added.
C12_MintSubtractedBurnAdded == ProfitLossSignedBy(BURN)

\* C12 witness: a pool with a MINT, a BURN and a current balance, whose
\* profit/loss has a negative amount.
C12_Witness ==
    /\ pnl.phase = "done"
    /\ \E i \in DOMAIN pnl.result :
          LET r == pnl.result[i]
          IN  /\ \E e \in Range(r.events) : e.event_type = MINT
              /\ \E e \in Range(r.events) : e.event_type = BURN
              /\ PnlBalancesOf(r.pool) # <<>>
              /\ \E k \in DOMAIN r.profit_loss_amounts : r.profit_loss_amounts[k] < 0
              /\ r.usd_profit_loss # 0

\* the first request of a fetch of the given kind of invest events
FirstInvestRequest(requests, event_type) ==
    LET of_type == SelectSeq(requests, LAMBDA r : r.query = "invest"
                                                  /\ r.event_type = event_type)
    IN  of_type[1]

\* C13: the addresses without a used query range are the new addresses; the
\* invest events of the new addresses are requested from timestamp 0 to
\* to_timestamp, whatever from_timestamp is; the write after the fetch gives
\* every new address the range (0, to_timestamp), with or without events.
C13_NewAddressFetchedFromZero ==
    [][\A p \in Procs :
        /\ (pc[p] = "split" /\ pc'[p] # "split") =>
              loc'[p].new_addresses =
                  {a \in loc[p].addresses : ledger[a] = NoRange}
        /\ (pc[p] = "range_new" /\ pc'[p] # "range_new") =>
              /\ \A event_type \in {ADD_LIQUIDITY, REMOVE_LIQUIDITY} :
                    LET first == FirstInvestRequest(loc[p].new_requests, event_type)
                    IN  first.start_ts = 0 /\ first.offset = 0
              /\ \A r \in Range(loc[p].new_requests) :
                    r.query = "invest" => r.end_ts = loc[p].to_timestamp
              /\ \A a \in loc[p].new_addresses :
                    ledger'[a] = <<0, loc[p].to_timestamp>>]_vars

\* C13 witness: a call with from_timestamp 1 has written the range of a new
\* address that has no event in the window.
C13_Witness ==
    \E p \in Procs :
        /\ pc[p] \in {"fetch_existing", "aggregate"}
        /\ loc[p].from_timestamp = 1
        /\ \E a \in loc[p].new_addresses \cap loc[p].range_updated :
              /\ a \notin DOMAIN loc[p].address_to_events_data
              /\ ledger[a] = <<0, loc[p].to_timestamp>>

\* the least of to_timestamp and the upper bounds of the ranges of the
\* addresses that have one
MinCoveredTo(addresses, to_timestamp) ==
    LET bounds == {to_timestamp} \cup {ledger[a][2] : a \in Recorded(addresses)}
    IN  CHOOSE m \in bounds : \A b \in bounds : m <= b

\* C14: min_to_timestamp is the least of to_timestamp and the upper bounds
\* of the existing addresses; the existing addresses are requested exactly
\* when there are some and to_timestamp is above it, from min_to_timestamp to
\* to_timestamp and nowhere else; when they are not requested, no step of
\* the call changes their ranges.
C14_ExistingQueriedFromMinCoveredTo ==
    [][\A p \in Procs :
        /\ (pc[p] = "split" /\ pc'[p] # "split") =>
              /\ loc'[p].existing_addresses = Recorded(loc[p].addresses)
              /\ loc'[p].min_to_timestamp =
                    MinCoveredTo(loc[p].addresses, loc[p].to_timestamp)
        /\ (pc[p] # "aggregate" /\ pc'[p] = "aggregate") =>
              (loc'[p].existing_requests # <<>>
                  <=> /\ loc'[p].existing_addresses # {}
                      /\ loc'[p].to_timestamp > loc'[p].min_to_timestamp)
        /\ (pc[p] = "range_existing" /\ pc'[p] # "range_existing") =>
              /\ \A event_type \in {ADD_LIQUIDITY, REMOVE_LIQUIDITY} :
                    LET first == FirstInvestRequest(loc[p].existing_requests,
                                                    event_type)
                    IN  /\ first.start_ts = loc[p].min_to_timestamp
                        /\ first.offset = 0
              /\ \A r \in Range(loc[p].existing_requests) :
                    r.query = "invest" =>
                        /\ r.start_ts >= loc[p].min_to_timestamp
                        /\ r.end_ts = loc[p].to_timestamp
        /\ (/\ pc'[p] # pc[p]
            /\ pc[p] \in InLock \ {"reset", "split"}
            /\ loc[p].to_timestamp <= loc[p].min_to_timestamp) =>
              /\ loc'[p].existing_requests = <<>>
              /\ \A a \in loc[p].existing_addresses : ledger'[a] = ledger[a]]_vars

\* C14 witness: two existing addresses with different upper bounds were
\* requested from the lower one, which is above 0 and below to_timestamp.
C14_Witness ==
    \E p \in Procs :
        /\ pc[p] = "aggregate"
        /\ loc[p].existing_requests # <<>>
        /\ 0 < loc[p].min_to_timestamp
        /\ loc[p].min_to_timestamp < loc[p].to_timestamp
        /\ \E a, b \in loc[p].existing_addresses :
              /\ ledger[a] = <<loc[p].min_to_timestamp, loc[p].to_timestamp>>
              /\ ledger[b] = ledger[a]
              /\ a # b

\* C15: a range write of a call gives the addresses of the batch the upper
\* bound to_timestamp; a call for one address whose range (t1, t2) has
\* t1 < t2, made with to_timestamp = t2, has the address as existing and
\* min_to_timestamp = t2, and goes on to the aggregation without a request.
C15_CoveredUpToLastUpdate ==
    [][\A p \in Procs :
        /\ (pc[p] \in {"range_new", "range_existing"} /\ pc'[p] # pc[p]) =>
              \A a \in BatchAddresses(loc[p], BatchAt(p)) :
                  ledger'[a][2] = loc[p].to_timestamp
        /\ \A a \in Addresses :
              (/\ pc[p] = "split" /\ pc'[p] # "split"
               /\ loc[p].addresses = {a}
               /\ ledger[a] # NoRange
               /\ ledger[a][1] < ledger[a][2]
               /\ loc[p].to_timestamp = ledger[a][2]) =>
                  /\ loc'[p].existing_addresses = {a}
                  /\ loc'[p].new_addresses = {}
                  /\ loc'[p].min_to_timestamp = ledger[a][2]
                  /\ pc'[p] = "aggregate"
                  /\ loc'[p].new_requests = <<>>
                  /\ loc'[p].existing_requests = <<>>]_vars

\* C15 witness: an address whose range (t1, t2), 0 < t1 < t2, was written
\* over an earlier range that ended at t1 is asked for alone with
\* to_timestamp = t2, and the call is at the aggregation without a request.
C15_Witness ==
    \E p \in Procs, a \in Addresses :
        /\ pc[p] = "aggregate"
        /\ loc[p].addresses = {a}
        /\ loc[p].existing_addresses = {a}
        /\ ledger[a] # NoRange
        /\ 0 < ledger[a][1]
        /\ ledger[a][1] < ledger[a][2]
        /\ loc[p].to_timestamp = ledger[a][2]
        /\ loc[p].min_to_timestamp = ledger[a][2]
        /\ loc[p].existing_requests = <<>>

\* the page the subgraph returned for a request of the fetch's log
PageOf(r) ==
    IF r.query = "invest"
    THEN InvestQuery(indexer, r.event_type, fx.addresses,
                     r.start_ts, r.end_ts, r.offset)
    ELSE BPTQuery(indexer, r.event_type, fx.addresses,
                  r.transactions, r.id, r.offset)

\* request j is a later request of the loop that issued request i: a later
\* invest request, or a later BPT request of the same nested fetch
LaterOfSameLoop(i, j) ==
    /\ i < j
    /\ fx.requests[i].query = fx.requests[j].query
    /\ fx.requests[i].query = "bpt" =>
          \A k \in i..j : fx.requests[k].query = "bpt"

HasNextRequest(i) == \E j \in DOMAIN fx.requests : LaterOfSameLoop(i, j)

InvestRequests == {i \in DOMAIN fx.requests : fx.requests[i].query = "invest"}

\* the BPT requests of the nested fetch of the last invest page
LastBPTRequests ==
    {i \in DOMAIN fx.requests :
        /\ fx.requests[i].query = "bpt"
        /\ \A j \in InvestRequests : j < i}

\* C16: a loop issues a next request only after a page of GRAPH_QUERY_LIMIT
\* items; when the fetch has returned, every loop stopped at its first
\* shorter page, the invest events are the union of the invest pages, and
\* the BPT events of the last nested fetch are the union of its pages.
C16_NextRequestOnlyAfterFullPage ==
    /\ \A i \in DOMAIN fx.requests :
          HasNextRequest(i) => Len(PageOf(fx.requests[i])) = GRAPH_QUERY_LIMIT
    /\ fx.phase = "done" =>
          /\ \A i \in DOMAIN fx.requests :
                ~HasNextRequest(i) =>
                    Len(PageOf(fx.requests[i])) < GRAPH_QUERY_LIMIT
          /\ fx.unique_invest =
                UNION {Range(PageOf(fx.requests[i])) : i \in InvestRequests}
          /\ fx.mint_events =
                UNION {Range(PageOf(fx.requests[i])) : i \in LastBPTRequests}

\* C16 witness: a fetch of two invest requests, a full page and then a
\* shorter one that is not empty, has returned the events of both.
C16_Witness ==
    /\ fx.phase = "done"
    /\ Cardinality(InvestRequests) = 2
    /\ \E i, j \in InvestRequests :
          /\ i < j
          /\ Len(PageOf(fx.requests[i])) = GRAPH_QUERY_LIMIT
          /\ Len(PageOf(fx.requests[j])) \in 1..(GRAPH_QUERY_LIMIT - 1)
          /\ Cardinality(fx.unique_invest)
                = GRAPH_QUERY_LIMIT + Len(PageOf(fx.requests[j]))

\* C17: no request of a fetch, of invest events, of BPT events or of pool
\* shares, has an offset above GRAPH_QUERY_SKIP_LIMIT.
C17_OffsetNeverAboveSkipLimit ==
    /\ \A r \in Range(fx.requests) : r.offset <= GRAPH_QUERY_SKIP_LIMIT
    /\ \A r \in Range(pg.requests) : r.offset <= GRAPH_QUERY_SKIP_LIMIT

\* the number of times an event is in the list of its address
TimesIn(address_to_events, e) ==
    IF e.address \in DOMAIN address_to_events
    THEN Cardinality({i \in DOMAIN address_to_events[e.address] :
                         address_to_events[e.address][i] = e})
    ELSE 0

\* C18: when the fetch has returned, every event of every invest page is
\* once in the list of invest events of its address, and every event of
\* every page of the last nested fetch once in the list of BPT events of its
\* address, on however many pages it was.
C18_EventOfSeveralPagesOnceInOutput ==
    fx.phase = "done" =>
        /\ \A i \in InvestRequests :
              \A e \in Range(PageOf(fx.requests[i])) :
                  TimesIn(FetchResult(fx).invest, e) = 1
        /\ \A i \in LastBPTRequests :
              \A e \in Range(PageOf(fx.requests[i])) :
                  TimesIn(FetchResult(fx).bpt, e) = 1

\* C18 witness: an invest event was on the pages of two requests, the
\* second after the start timestamp moved to the last event's timestamp,
\* and is once in the output.
C18_Witness ==
    /\ fx.phase = "done"
    /\ \E i, j \in InvestRequests :
          /\ i < j
          /\ fx.requests[j].start_ts > fx.requests[i].start_ts
          /\ \E e \in Range(PageOf(fx.requests[i])) \cap Range(PageOf(fx.requests[j])) :
                TimesIn(FetchResult(fx).invest, e) = 1

\* what a stage of the running price resolution gave, from its log
StageGave(stage, outcome) ==
    \E i \in DOMAIN px.stages :
        px.stages[i] = [stage |-> stage, outcome |-> outcome]

PriceCallContinues == px.error = "" /\ px.phase \in {"warn", "done"}

PriceCallRaised(error) == px.phase = "raised" /\ px.error = error

\* no price was taken from the Uniswap stage: the prices are those of the
\* Balancer stage alone, the historical price is zero
NoPriceFromUniswapStage ==
    IF px.kind = "current"
    THEN px.token_to_prices =
             BalancerGraphPrices(px.env, px.tokens).token_to_prices
    ELSE px.usd_price = 0

\* C19 as stated: a remote failure of the protocol-native (Balancer) stage or
\* of the secondary-AMM (Uniswap) stage is caught and the call continues,
\* while a failure of the oracle stage propagates to the caller.
C19_EveryStageButOracleCaught ==
    /\ (StageGave("balancer", "RemoteError")
           \/ StageGave("uniswap", "RemoteError")) => PriceCallContinues
    /\ StageGave("oracle", "RemoteError") => PriceCallRaised("RemoteError")

\* C19 amended: only a remote failure of the secondary-AMM (Uniswap) stage is
\* caught and treated as no price from that stage, the call continuing; a
\* remote failure of the protocol-native (Balancer) stage or of the oracle
\* stage propagates to the caller.
C19_OnlyUniswapStageCaught ==
    /\ StageGave("uniswap", "RemoteError") =>
           PriceCallContinues /\ NoPriceFromUniswapStage
    /\ (StageGave("balancer", "RemoteError")
           \/ StageGave("oracle", "RemoteError")) =>
           PriceCallRaised("RemoteError")

\* a current price resolution whose Uniswap stage failed after the Balancer
\* stage priced one of two tokens has returned, with a warning for the other
C19_Witness ==
    /\ px.kind = "current"
    /\ px.phase = "done"
    /\ StageGave("balancer", "prices")
    /\ StageGave("uniswap", "RemoteError")
    /\ DOMAIN px.token_to_prices # {}
    /\ px.warnings # {}

\* no stage of the price resolution has a price of the token: it has no
\* oracle, the Balancer subgraph (asked for current prices only) answers
\* without a price of it, and the Uniswap subgraph is not initialised, fails
\* or answers without a price of it
NoStageYieldsPrice(token) ==
    LET time == IF px.kind = "current" THEN Now ELSE px.timestamp
    IN  /\ token \in px.tokens
        /\ token \notin px.env.has_oracle
        /\ px.kind = "current" =>
               ~px.env.balancer_error /\ px.env.balancer_price[token] = 0
        /\ \/ ~px.env.graph_uniswap
           \/ px.env.uniswap_error
           \/ px.env.price[token, time] = 0

ResolvedToZeroWithWarning(token) ==
    /\ px.phase = "done"
    /\ px.error = ""
    /\ IF px.kind = "current" THEN token \notin DOMAIN px.token_to_prices
       ELSE px.usd_price = 0
    /\ token \in px.warnings

\* C20: when no price stage yields a price for a token without an oracle,
\* the finished price resolution has returned normally with the value zero
\* and has recorded a warning for the token, whether or not the Uniswap
\* subgraph was initialised.
C20_NoPriceGivesZeroAndWarning ==
    px.phase \in {"done", "raised"} =>
        \A token \in Tokens :
            NoStageYieldsPrice(token) => ResolvedToZeroWithWarning(token)

\* the call of p has ended in RemoteError: nothing is returned
FailedWithRemoteError(p) == pc[p] = "raise" /\ loc[p].error = "RemoteError"

\* C21 as stated: a transport error, or a result without its key, at a request
\* of any fetch of a synchronization makes get_events_history fail with
\* RemoteError; no mapping is returned.
C21_AnyFailedRequestFailsTheCall ==
    \A p \in Procs : loc[p].failed # {} => FailedWithRemoteError(p)

\* C21 amended: the same for every fetch but the Uniswap (tokenDayDatas) price
\* fetch, whose failure is caught.
C21_FailedRequestButUniswapFailsTheCall ==
    \A p \in Procs :
        loc[p].failed \ {"tokenDayDatas"} # {} => FailedWithRemoteError(p)

\* a call has failed at a burns request, after the whole ADD_LIQUIDITY pass
\* and a removeLiquidities request
C21_Witness ==
    \E p \in Procs :
        /\ "burns" \in loc[p].failed
        /\ FailedWithRemoteError(p)
        /\ Len(loc[p].new_requests) >= 3

\* C22: the step in which a request of a batch's fetch fails (an
\* addLiquidities, mints, removeLiquidities or burns request, at any page)
\* spans the fetch of that batch from its beginning; it leaves the used query
\* ranges of the batch's addresses and the stored events as they were.
C22_FailedFetchWritesNothing ==
    [][\A p \in Procs :
          (pc[p] \in {"fetch_new", "fetch_existing"} /\ pc'[p] = "raise") =>
              /\ \A a \in BatchAddresses(loc[p], pc[p]) : ledger'[a] = ledger[a]
              /\ db_events' = db_events]_vars

\* the fetch of the existing addresses has failed in its REMOVE_LIQUIDITY pass
\* after the range of the new addresses was written; the existing addresses
\* still have their ranges
C22_Witness ==
    \E p \in Procs :
        /\ pc[p] = "raise"
        /\ loc[p].failed \cap {"removeLiquidities", "burns"} # {}
        /\ loc[p].existing_requests # <<>>
        /\ loc[p].range_updated # {}
        /\ \A a \in loc[p].existing_addresses : ledger[a] # NoRange

AnyMalformed(raw_items) == \E i \in DOMAIN raw_items : raw_items[i].malformed

\* a logged request of the invest-event fetch had a malformed item on its page
FetchGotMalformed ==
    \E i \in DOMAIN fx.requests : AnyMalformed(PageOf(fx.requests[i]))

\* a logged poolShares request had a malformed item on its page
SharesGotMalformed ==
    \E i \in DOMAIN pg.requests :
        AnyMalformed(PoolSharesQuery(pg.pool_shares, pg.addresses,
                                     pg.requests[i].offset))

\* the tokens whose malformed price item was on a page of the answered
\* tokenPrices request, and of the answered tokenDayDatas request
MalformedTokenPricesGot ==
    IF StageGave("balancer", "prices")
    THEN {t \in px.tokens \cap px.env.malformed_token_prices :
             px.env.balancer_price[t] # 0}
    ELSE {}

MalformedTokenDayDatasGot ==
    LET time == IF px.kind = "current" THEN Now ELSE px.timestamp
        asked == IF px.kind = "current"
                 THEN px.tokens \ DOMAIN BalancerGraphPrices(
                                             px.env, px.tokens).token_to_prices
                 ELSE px.tokens
    IN  IF StageGave("uniswap", "prices")
        THEN {t \in asked \cap px.env.malformed_token_day_datas :
                 px.env.price[t, time] # 0}
        ELSE {}

EventAndShareFetchesFailAtMalformed ==
    /\ FetchGotMalformed => fx.phase \in {"bpt", "raised"}
    /\ fx.phase = "done" => ~FetchGotMalformed
    /\ SharesGotMalformed => pg.phase = "raised"

SortedEvents(events) ==
    \A i, j \in DOMAIN events :
        i < j => ~LexLess(KeyTimestampLog(events[j]), KeyTimestampLog(events[i]))

\* C24: in every pool events balance a call of get_events_history returns,
\* the events are sorted by timestamp and then by log index.
C24_ReturnedEventsSortedByTimestampLog ==
    \A p \in Procs :
        pc[p] = "return" =>
            \A a \in DOMAIN loc[p].address_to_pool_events_balances :
                LET balances == loc[p].address_to_pool_events_balances[a]
                IN  \A i \in DOMAIN balances : SortedEvents(balances[i].events)

\* a call returns a pool events balance of several events of different
\* timestamps
C24_Witness ==
    \E p \in Procs :
        /\ pc[p] = "return"
        /\ \E a \in DOMAIN loc[p].address_to_pool_events_balances :
             LET balances == loc[p].address_to_pool_events_balances[a]
             IN  \E i \in DOMAIN balances :
                    /\ Len(balances[i].events) >= 2
                    /\ balances[i].events[1].timestamp
                           < balances[i].events[2].timestamp

\* the page a logged request of a batch's fetch was answered with
BatchPageOf(r, addresses) ==
    IF r.query = "invest"
    THEN InvestQuery(indexer, r.event_type, addresses,
                     r.start_ts, r.end_ts, r.offset)
    ELSE BPTQuery(indexer, r.event_type, addresses,
                  r.transactions, r.id, r.offset)

\* the requests of a batch's fetch, in the order they were made: every invest
\* request is followed by the first BPT request for its page's transactions;
\* a further BPT request follows a full BPT page only; an invest request that
\* is not the first of its pass follows the short last page of the previous
\* nested BPT fetch; no ADD_LIQUIDITY or MINT request follows a
\* REMOVE_LIQUIDITY or BURN request
OneRequestAfterTheOther(requests, addresses) ==
    \A i \in DOMAIN requests :
        LET r == requests[i]
        IN  /\ (r.query = "invest" /\ i < Len(requests)) =>
                  /\ requests[i + 1].query = "bpt"
                  /\ requests[i + 1].event_type = BPTTypeOf(r.event_type)
                  /\ requests[i + 1].offset = 0
                  /\ requests[i + 1].id = <<0, 0>>
                  /\ requests[i + 1].transactions =
                         {e.tx_hash : e \in Range(BatchPageOf(r, addresses))}
            /\ (r.query = "bpt" /\ i < Len(requests)) =>
                  IF Len(BatchPageOf(r, addresses)) < GRAPH_QUERY_LIMIT
                  THEN requests[i + 1].query = "invest"
                  ELSE /\ requests[i + 1].query = "bpt"
                       /\ requests[i + 1].transactions = r.transactions
            /\ (r.query = "invest" /\ i > 1) => requests[i - 1].query = "bpt"
            /\ \A j \in DOMAIN requests :
                  (j > i /\ r.event_type \in {REMOVE_LIQUIDITY, BURN}) =>
                      requests[j].event_type \in {REMOVE_LIQUIDITY, BURN}

\* C25: in the fetch of a batch the nested BPT fetch of an invest page is
\* complete before the next invest request is made, and the ADD_LIQUIDITY
\* pass with its MINT fetches is complete before the REMOVE_LIQUIDITY pass
\* begins: the requests are made one after the other.
C25_RequestsOneAfterTheOther ==
    \A p \in Procs :
        /\ OneRequestAfterTheOther(loc[p].new_requests, loc[p].new_addresses)
        /\ OneRequestAfterTheOther(loc[p].existing_requests,
                                   loc[p].existing_addresses)

\* a batch's fetch made two addLiquidities requests, a second mints request
\* for one page, and went on to the REMOVE_LIQUIDITY pass
C25_Witness ==
    \E p \in Procs :
        LET requests == loc[p].new_requests
        IN  /\ pc[p] = "range_new"
            /\ \E i, j \in DOMAIN requests :
                  /\ i < j
                  /\ requests[i].query = "invest"
                  /\ requests[j].query = "invest"
                  /\ requests[i].event_type = ADD_LIQUIDITY
                  /\ requests[j].event_type = ADD_LIQUIDITY
            /\ \E i \in DOMAIN requests :
                  /\ requests[i].query = "bpt"
                  /\ requests[i].offset > 0
            /\ \E i \in DOMAIN requests :
                  requests[i].event_type = REMOVE_LIQUIDITY

\* the price the aggregation gets for an invest event
AggPriceOf(e) ==
    TokenPriceAtTimestampZeroIfError(agg.prices, e.token, e.timestamp).usd_price

\* C26: a BalancerEvent whose group has no invest event with a zero price has
\* as USD value the sum of price * amount over the group, as pool-token
\* amount the amount of its BPT event, and amounts that sum to the sum of the
\* group's invest amounts.
C26_ValueAndAmountsOfPricedGroup ==
    agg.phase = "done" =>
        \A i \in DOMAIN agg.balancer_events :
            LET c == agg.balancer_events[i]
                group == AggGroupOf(c)
            IN  (\A e \in Range(group) : ~ZeroPriced(e)) =>
                    /\ c.usd_value =
                           SumSeq([k \in DOMAIN group |->
                                      AggPriceOf(group[k]) * group[k].amount])
                    /\ \E b \in AggBPTEventsOf(c.address) :
                           AggEventOf(c, b) /\ c.lp_amount = b.amount
                    /\ SumSeq(c.amounts) =
                           SumSeq([k \in DOMAIN group |-> group[k].amount])

\* a BalancerEvent of a group of two invest events of different tokens, both
\* priced, one of an amount above 1 and one of a price above 1
C26_Witness ==
    /\ agg.phase = "done"
    /\ \E i \in DOMAIN agg.balancer_events :
          LET c == agg.balancer_events[i]
              group == AggGroupOf(c)
          IN  /\ Len(group) = 2
              /\ group[1].token # group[2].token
              /\ \A e \in Range(group) : ~ZeroPriced(e)
              /\ \E e \in Range(group) : e.amount > 1
              /\ \E e \in Range(group) : AggPriceOf(e) > 1
              /\ c.usd_value > SumSeq(c.amounts)

\* an invest event whose token is not among the underlying tokens of its pool
OutOfPool(e) == TokenIndex(e.pool, e.token) = 0

\* C27: an invest event whose token is not among the underlying tokens of
\* its pool does not make the aggregation fail, and adds nothing to the
\* amounts of its BalancerEvent.
C27_TokenOutOfPoolAddsZero ==
    agg.phase = "done" =>
        /\ agg.error # "KeyError"
        /\ \A i \in DOMAIN agg.balancer_events :
              LET c == agg.balancer_events[i]
                  group == AggGroupOf(c)
              IN  SumSeq(c.amounts) =
                      SumSeq([k \in DOMAIN group |->
                                 IF OutOfPool(group[k]) THEN 0
                                 ELSE group[k].amount])

\* the invest events of a BalancerEvent's group in the order in which the
\* subgraph's pages hold them
AggGroupAsFetched(c) ==
    SortedByTimestamp(Range(AggGroupOf(c)))

\* the invest event of the least log index of a BalancerEvent's group
AggGroupLeastLogIndex(c) ==
    CHOOSE e \in Range(AggGroupOf(c)) :
        \A other \in Range(AggGroupOf(c)) : e.log_index <= other.log_index

\* C28 as stated: the timestamp of a BalancerEvent is the timestamp of the
\* first invest event of its group, the group taken in the order in which
\* the invest events were fetched.
C28_TimestampOfFirstFetchedEvent ==
    agg.phase = "done" =>
        \A i \in DOMAIN agg.balancer_events :
            LET c == agg.balancer_events[i]
            IN  /\ AggGroupOf(c) = AggGroupAsFetched(c)
                /\ c.timestamp = AggGroupAsFetched(c)[1].timestamp

\* C28: the timestamp of a BalancerEvent is the timestamp of the first
\* invest event of its group, the group being ordered by log index: the
\* fetched invest events are sorted by transaction hash and log index before
\* they are grouped.
C28_TimestampOfLeastLogIndexEvent ==
    agg.phase = "done" =>
        \A i \in DOMAIN agg.balancer_events :
            LET c == agg.balancer_events[i]
                group == AggGroupOf(c)
            IN  /\ \A j, k \in DOMAIN group :
                      j < k => group[j].log_index < group[k].log_index
                /\ c.timestamp = group[1].timestamp
                /\ c.timestamp = AggGroupLeastLogIndex(c).timestamp

\* a BalancerEvent of a group whose event of the least log index is not the
\* one fetched first, and whose timestamp differs from that one's
C28_Witness ==
    /\ agg.phase = "done"
    /\ \E i \in DOMAIN agg.balancer_events :
          LET c == agg.balancer_events[i]
          IN  /\ Len(AggGroupOf(c)) = 2
              /\ AggGroupAsFetched(c)[1] # AggGroupLeastLogIndex(c)
              /\ c.timestamp # AggGroupAsFetched(c)[1].timestamp
              /\ c.timestamp = AggGroupLeastLogIndex(c).timestamp

\* the pools of the events and of the current balances given to the
\* profit/loss computation
PnlEventPools == {e.pool : e \in Range(pnl.events)}

PnlBalancePools == {b.pool : b \in Range(pnl.pool_balances)}

PnlResultsOf(pool) == {i \in DOMAIN pnl.result : pnl.result[i].pool = pool}

\* C29 as stated: the profit/loss computation returns one PoolEventsBalance
\* for every pool of the events or of the current balances, a pool with a
\* current balance and no event included.
C29_OneResultPerPoolOfEventsOrBalances ==
    pnl.phase = "done" =>
        /\ \A pool \in PnlEventPools \cup PnlBalancePools :
              Cardinality(PnlResultsOf(pool)) = 1
        /\ \A i \in DOMAIN pnl.result :
              pnl.result[i].pool \in PnlEventPools \cup PnlBalancePools

\* C29: the profit/loss computation returns one PoolEventsBalance for every
\* pool of the events, holding that pool's events, and none for a pool that
\* has a current balance and no event.
C29_OneResultPerPoolOfEvents ==
    pnl.phase = "done" =>
        /\ \A pool \in PnlEventPools : Cardinality(PnlResultsOf(pool)) = 1
        /\ \A i \in DOMAIN pnl.result :
              /\ pnl.result[i].pool \in PnlEventPools
              /\ pnl.result[i].events = PnlEventsOf(pnl.result[i].pool)
        /\ \A pool \in PnlBalancePools \ PnlEventPools : PnlResultsOf(pool) = {}

\* a computation over events of two pools and the current balance of a
\* third, which gets no PoolEventsBalance
C29_Witness ==
    /\ pnl.phase = "done"
    /\ Cardinality(PnlEventPools) = 2
    /\ PnlBalancePools \ PnlEventPools # {}
    /\ Len(pnl.result) = 2
    /\ \E pool \in PnlBalancePools \ PnlEventPools : PnlResultsOf(pool) = {}

\* C30: the profit/loss amounts of every PoolEventsBalance are as many as
\* the pool has underlying tokens, whatever the number of amounts of the
\* pool's events and whether or not the pool has a current balance.
C30_ProfitLossAmountsOfPoolTokenCount ==
    pnl.phase = "done" =>
        \A i \in DOMAIN pnl.result :
            Len(pnl.result[i].profit_loss_amounts) =
                Len(underlying_tokens(pnl.result[i].pool))

\* a PoolEventsBalance of a pool without a current balance, with an event of
\* more amounts than the pool has tokens and one of as many, and another of
\* a pool with a current balance
C30_Witness ==
    /\ pnl.phase = "done"
    /\ \E i, j \in DOMAIN pnl.result :
          LET r == pnl.result[i]
              q == pnl.result[j]
          IN  /\ PnlBalancesOf(r.pool) = <<>>
              /\ \E e \in Range(r.events) :
                    Len(e.amounts) > Len(underlying_tokens(r.pool))
              /\ \E e \in Range(r.events) :
                    Len(e.amounts) = Len(underlying_tokens(r.pool))
              /\ Len(r.profit_loss_amounts) = Len(underlying_tokens(r.pool))
              /\ PnlBalancesOf(q.pool) # <<>>
              /\ Len(q.profit_loss_amounts) = Len(underlying_tokens(q.pool))

\* the price the maps resolve to for a token: that of the known (oracle)
\* map when it has the token, else that of the unknown tokens' map, else zero
BalResolvedPrice(token) ==
    IF token \in DOMAIN bal.known_token_to_prices
    THEN bal.known_token_to_prices[token]
    ELSE IF token \in DOMAIN bal.unknown_token_to_prices
    THEN bal.unknown_token_to_prices[token]
    ELSE 0

\* C31: after the pricing the USD value of every pool balance is the sum of
\* the USD values of its underlying tokens' balances; a token whose price
\* resolves to zero keeps the price and the value it had; a token of both
\* maps gets its price of the known (oracle) map.
C31_PricedPoolBalances ==
    bal.phase = "done" =>
        \A a \in DOMAIN bal.result :
            \A i \in DOMAIN bal.result[a] :
                LET before == bal.address_to_pool_balances[a][i].underlying_tokens_balance
                    after == bal.result[a][i].underlying_tokens_balance
                IN  /\ bal.result[a][i].usd_value =
                           SumSeq([k \in DOMAIN after |-> after[k].usd_value])
                    /\ DOMAIN after = DOMAIN before
                    /\ \A k \in DOMAIN after :
                          LET resolved == BalResolvedPrice(before[k].token)
                          IN  IF resolved = 0
                              THEN after[k] = before[k]
                              ELSE after[k] =
                                       [before[k] EXCEPT
                                           !.usd_price = resolved,
                                           !.usd_value = before[k].amount * resolved]

\* a pricing where one token is in both maps at different prices and gets
\* the known one, and the other token resolves to zero and keeps the price
\* and value of an earlier pricing, which count in the pool's value
C31_Witness ==
    /\ bal.phase = "done"
    /\ "X" \in DOMAIN bal.known_token_to_prices
    /\ "X" \in DOMAIN bal.unknown_token_to_prices
    /\ bal.known_token_to_prices["X"] # bal.unknown_token_to_prices["X"]
    /\ bal.unknown_token_to_prices["X"] # 0
    /\ BalResolvedPrice("Y") = 0
    /\ LET pool_balance == bal.result["A"][1]
       IN  /\ pool_balance.underlying_tokens_balance[1].usd_price =
                  bal.known_token_to_prices["X"]
           /\ pool_balance.underlying_tokens_balance[2].usd_price = EarlierPrice
           /\ pool_balance.usd_value =
                  2 * bal.known_token_to_prices["X"] + 3 * EarlierPrice

\* the result of a call that returns events, had the current balances of
\* its addresses been taken in
WithBalancesFoldedIn(p) ==
    AddressToPoolEventsBalances(loc[p].db_address_to_events,
                                get_balances(loc[p].addresses))

\* the same, had no current balance been taken in
WithoutBalances(p) ==
    AddressToPoolEventsBalances(loc[p].db_address_to_events, NoEventsData)

ReturnsEvents(p) ==
    /\ pc[p] = "return"
    /\ DOMAIN loc[p].db_address_to_events # {}

\* C32 as stated: the result of every call that returns events has the
\* current balance of each pool folded in, whatever its from_timestamp.
C32_BalancesFoldedInAlways ==
    \A p \in Procs :
        ReturnsEvents(p) =>
            loc[p].address_to_pool_events_balances = WithBalancesFoldedIn(p)

\* C32: the result of a call that returns events has the current balance of
\* each pool folded in when its from_timestamp is 0; with any other
\* from_timestamp no current balance is requested or folded in.
C32_BalancesFoldedInFromTimestampZero ==
    \A p \in Procs :
        ReturnsEvents(p) =>
            loc[p].address_to_pool_events_balances =
                IF loc[p].from_timestamp = 0
                THEN WithBalancesFoldedIn(p) ELSE WithoutBalances(p)

\* a call with a from_timestamp above 0 returns events of an address that
\* has a current balance in a pool of the events, and the balance is not in
\* the profit/loss
C32_Witness ==
    \E p \in Procs :
        /\ ReturnsEvents(p)
        /\ loc[p].from_timestamp # 0
        /\ WithBalancesFoldedIn(p) # WithoutBalances(p)
        /\ loc[p].address_to_pool_events_balances = WithoutBalances(p)

\* C33: every fetch of invest events comes to its end, also when the start
\* timestamp is taken at the skip limit from a page whose events all have
\* one timestamp.
C33_InvestFetchTerminates ==
    <>(fx.phase \in {"done", "raised"})

\* C34: when a call of get_events_history ends in an exception the lock is
\* released, and a call that waits for the lock then gets to the body of the
\* `with` block.
C34_LockReleasedAfterFailure ==
    \A p \in Procs :
        /\ (pc[p] = "raise") ~>
               /\ pc[p] = "idle"
               /\ trades_lock + Cardinality({q \in Procs : pc[q] \in InLock}) = 1
        /\ \A q \in Procs \ {p} :
              (pc[p] = "raise" /\ pc[q] = "wait") ~> (pc[q] \in InLock)

\* a call is about to end in an exception while another waits for the lock
C34_Witness ==
    \E p \in Procs :
        \E q \in Procs \ {p} :
            /\ pc[p] = "raise"
            /\ loc[p].error # ""
            /\ pc[q] = "wait"
            /\ trades_lock = 0

\* the caller is in a call with the arguments of the call that ended last,
\* which returned, and without reset
RepeatedCall ==
    /\ pc[Caller] \in InLock
    /\ last.returned
    /\ ~loc[Caller].reset_db_data
    /\ loc[Caller].addresses = last.addresses
    /\ loc[Caller].from_timestamp = last.from_timestamp
    /\ loc[Caller].to_timestamp = last.to_timestamp

\* C35: a call with the addresses and the window of the call that returned
\* before it, without reset, makes no invest-event or BPT-event request,
\* leaves the used query ranges and the stored events as they were, and
\* reads the same events per address.
C35_RepeatedCallIdempotent ==
    RepeatedCall =>
        /\ loc[Caller].new_requests = <<>>
        /\ loc[Caller].existing_requests = <<>>
        /\ loc[Caller].range_updated = {}
        /\ ~loc[Caller].events_written
        /\ ledger = last.ledger
        /\ db_events = last.db_events
        /\ pc[Caller] # "raise" \/ loc[Caller].failed \subseteq BalancesSchemas
        /\ pc[Caller] \in {"balances", "return"} =>
              loc[Caller].db_address_to_events = last.db_address_to_events

\* the repeated call is about to return the events the call before it
\* returned, for addresses whose ranges are all there, one of them written
\* by a fetch of the existing addresses
C35_Witness ==
    /\ RepeatedCall
    /\ pc[Caller] = "return"
    /\ DOMAIN last.db_address_to_events # {}
    /\ loc[Caller].db_address_to_events = last.db_address_to_events
    /\ loc[Caller].existing_addresses = loc[Caller].addresses
    /\ \E a \in loc[Caller].addresses : ledger[a][1] # 0

====
